---- MODULE Spec2Model ----
(***************************************************************************)
(* A model of the spreadsheet formula core: the address codec, the lexer   *)
(* and parser, the DependencyGraph and the FormulaEngine.                  *)
(*                                                                         *)
(* Text (formula source, addresses, token values) is a sequence of         *)
(* one-character strings, so that scanning, parsing and formatting are     *)
(* computed character by character as the code does.  Numbers are exact    *)
(* rationals [n, d] (d > 0, lowest terms); IEEE rounding is not modelled.  *)
(* A thrown exception is a result record with ok = FALSE; the text an      *)
(* error message interpolates (a function name, operand values) is left    *)
(* out of the message.                                                     *)
(***************************************************************************)
EXTENDS Integers, Sequences, FiniteSets, TLC

VARIABLES
    dependencies,   \* DependencyGraph.dependencies : address -> ordered set
    dependents,     \* DependencyGraph.dependents   : address -> ordered set
    cells,          \* sheet.cells : address -> Cell (absent key = empty cell)
    keys,           \* the own-key order of sheet.cells (Object.entries order)
    ret             \* what the most recent call returned to its caller

vars == <<dependencies, dependents, cells, keys, ret>>

(***************************************************************************)
(* Characters                                                              *)
(***************************************************************************)
Upper == <<"A","B","C","D","E","F","G","H","I","J","K","L","M",
           "N","O","P","Q","R","S","T","U","V","W","X","Y","Z">>

Lower == <<"a","b","c","d","e","f","g","h","i","j","k","l","m",
           "n","o","p","q","r","s","t","u","v","w","x","y","z">>

Digits == <<"0","1","2","3","4","5","6","7","8","9">>

IsUpper(c) == \E i \in DOMAIN Upper : Upper[i] = c

IsLower(c) == \E i \in DOMAIN Lower : Lower[i] = c

IsLetter(c) == IsUpper(c) \/ IsLower(c)

IsDigit(c) == \E i \in DOMAIN Digits : Digits[i] = c

IsSpace(c) == c \in {" ", "\t", "\n", "\r", "\f"}

\* charCodeAt(i) - 65 for an upper-case letter: A -> 0 ... Z -> 25
LetterIndex(c) == (CHOOSE i \in DOMAIN Upper : Upper[i] = c) - 1

DigitValue(c) == (CHOOSE i \in DOMAIN Digits : Digits[i] = c) - 1

ToUpperChar(c) ==
    IF IsLower(c) THEN Upper[CHOOSE i \in DOMAIN Lower : Lower[i] = c] ELSE c

ToUpperCase(s) == [i \in DOMAIN s |-> ToUpperChar(s[i])]

\* the length of the longest run of characters satisfying P that starts at s[from]
RunLen(s, from, P(_)) ==
    LET room == IF from > Len(s) THEN 0 ELSE Len(s) - from + 1
    IN  CHOOSE n \in 0..room :
            /\ \A i \in from..(from + n - 1) : P(s[i])
            /\ (n = room \/ ~P(s[from + n]))

\* parseInt of a non-empty digit string
RECURSIVE ParseInt(_)
ParseInt(ds) ==
    IF ds = <<>> THEN 0
    ELSE 10 * ParseInt(SubSeq(ds, 1, Len(ds) - 1)) + DigitValue(ds[Len(ds)])

\* String(n) for an integer n >= 0
RECURSIVE NatToString(_)
NatToString(n) ==
    IF n < 10 THEN <<Digits[n + 1]>>
    ELSE NatToString(n \div 10) \o <<Digits[(n % 10) + 1]>>

(***************************************************************************)
(* Address codec                                                           *)
(***************************************************************************)
addressFormat(addr, nl, nd) ==
    IF nl >= 1 /\ nd >= 1 /\ nl + nd = Len(addr)
    THEN [ok |-> TRUE, addr |-> addr]
    ELSE [ok |-> FALSE, code |-> "EVAL", msg |-> "Invalid cell address format"]

addressDigits(addr, nl) == addressFormat(addr, nl, RunLen(addr, nl + 1, IsDigit))

\* toCellAddress: /^[A-Z]+[0-9]+$/ or throw
ToCellAddress(addr) == addressDigits(addr, RunLen(addr, 1, IsUpper))

\* colToLetter writing plain base 26 (no - 1 between digits)
RECURSIVE colToLetter_plainBase26(_)
colToLetter_plainBase26(col) ==
    IF col >= 26
    THEN colToLetter_plainBase26(col \div 26) \o <<Upper[(col % 26) + 1]>>
    ELSE IF col >= 0 THEN <<Upper[col + 1]>>
    ELSE <<>>

RECURSIVE colToLetter(_)
colToLetter(col) ==
    IF col >= 0
    THEN colToLetter((col \div 26) - 1) \o <<Upper[(col % 26) + 1]>>
    ELSE <<>>

RECURSIVE letterToColAcc(_, _, _)
letterToColAcc(letters, i, col) ==
    IF i > Len(letters) THEN col
    ELSE letterToColAcc(letters, i + 1, col * 26 + (LetterIndex(letters[i]) + 1))

letterToCol(letters) == letterToColAcc(letters, 1, 0) - 1

\* the match of /^(\$?)([A-Z]+)(\$?)(\d+)$/ once its four groups are located:
\* d1, d2 are the lengths (0 or 1) of the two $ groups, nl and nd of the others
addressGroups(addr, d1, nl, d2, nd) ==
    IF nl >= 1 /\ nd >= 1 /\ d1 + nl + d2 + nd = Len(addr)
    THEN [ok          |-> TRUE,
          col         |-> letterToCol(SubSeq(addr, d1 + 1, d1 + nl)),
          row         |-> ParseInt(SubSeq(addr, d1 + nl + d2 + 1, Len(addr))) - 1,
          absoluteCol |-> d1 = 1,
          absoluteRow |-> d2 = 1]
    ELSE [ok |-> FALSE, code |-> "EVAL", msg |-> "Invalid cell address"]

DollarAt(addr, i) == IF Len(addr) >= i /\ addr[i] = "$" THEN 1 ELSE 0

addressRow(addr, d1, nl, d2) ==
    addressGroups(addr, d1, nl, d2, RunLen(addr, d1 + nl + d2 + 1, IsDigit))

addressLetters(addr, d1, nl) ==
    addressRow(addr, d1, nl, DollarAt(addr, d1 + nl + 1))

addressCol(addr, d1) == addressLetters(addr, d1, RunLen(addr, d1 + 1, IsUpper))

\* parseAddress: /^(\$?)([A-Z]+)(\$?)(\d+)$/ or throw
parseAddress(addr) == addressCol(addr, DollarAt(addr, 1))

formatAddress(col, row, absoluteCol, absoluteRow) ==
    ToCellAddress((IF absoluteCol THEN <<"$">> ELSE <<>>) \o colToLetter(col)
                  \o (IF absoluteRow THEN <<"$">> ELSE <<>>) \o NatToString(row + 1))

\* the match of /^([A-Z]+)([0-9]+)$/ in parseCellAddress once its groups are
\* located, with the column loop and parseInt of the function's body
cellAddressGroups(addr, nl, nd) ==
    IF nl >= 1 /\ nd >= 1 /\ nl + nd = Len(addr)
    THEN [ok  |-> TRUE,
          col |-> letterToColAcc(SubSeq(addr, 1, nl), 1, 0) - 1,
          row |-> ParseInt(SubSeq(addr, nl + 1, Len(addr))) - 1]
    ELSE [ok |-> FALSE, code |-> "EVAL", msg |-> "Invalid cell address"]

cellAddressDigits(addr, nl) == cellAddressGroups(addr, nl, RunLen(addr, nl + 1, IsDigit))

\* parseCellAddress (types.ts)
parseCellAddress(addr) == cellAddressDigits(addr, RunLen(addr, 1, IsUpper))

\* formatCellAddress (types.ts): the same letter loop as colToLetter
formatCellAddress(col, row) == ToCellAddress(colToLetter(col) \o NatToString(row + 1))

\* one axis of adjustReference: index v, the insertion and deletion points of the
\* axis (a record without the field when the point is undefined)
adjustAxis(v, insertedAt, deletedAt, axis, fixed) ==
    LET v1 == IF axis \in DOMAIN insertedAt /\ ~fixed /\ v >= insertedAt[axis]
              THEN v + 1 ELSE v
    IN  IF axis \in DOMAIN deletedAt /\ ~fixed /\ v1 > deletedAt[axis]
        THEN v1 - 1 ELSE v1

adjustParsed(parsed, insertedAt, deletedAt, isAbsolute) ==
    IF ~parsed.ok THEN parsed
    ELSE formatAddress(adjustAxis(parsed.col, insertedAt, deletedAt, "col", isAbsolute.col),
                       adjustAxis(parsed.row, insertedAt, deletedAt, "row", isAbsolute.row),
                       isAbsolute.col, isAbsolute.row)

adjustReference(addr, insertedAt, deletedAt, isAbsolute) ==
    adjustParsed(parseAddress(addr), insertedAt, deletedAt, isAbsolute)

\* the callback of transformFormula's replace, for a match with the groups
\* dollarCol (d1 = 1), letters, dollarRow (d2 = 1) and digits; this version
\* shifts a fixed axis like any other
replaceMatch_ignoringFixed(match, d1, letters, d2, digits, colOffset, rowOffset) ==
    IF d1 = 1 /\ d2 = 1 THEN match
    ELSE LET col == letterToCol(letters) + colOffset
             row == (ParseInt(digits) - 1) + rowOffset
         IN  IF col < 0 \/ row < 0 THEN <<"#", "R", "E", "F", "!">>
             ELSE SubSeq(match, 1, d1) \o colToLetter(col)
                  \o SubSeq(<<"$">>, 1, d2) \o NatToString(row + 1)

replaceMatch(match, d1, letters, d2, digits, colOffset, rowOffset) ==
    IF d1 = 1 /\ d2 = 1 THEN match
    ELSE LET col == letterToCol(letters) + (IF d1 = 1 THEN 0 ELSE colOffset)
             row == (ParseInt(digits) - 1) + (IF d2 = 1 THEN 0 ELSE rowOffset)
         IN  IF col < 0 \/ row < 0 THEN <<"#", "R", "E", "F", "!">>
             ELSE SubSeq(match, 1, d1) \o colToLetter(col)
                  \o SubSeq(<<"$">>, 1, d2) \o NatToString(row + 1)

\* formula.replace(/(\$?)([A-Z]+)(\$?)(\d+)/g, ...) from position i on: the
\* groups of a match starting at i are located one after the other; where
\* there is none the character is kept and the search moves on by one
RECURSIVE replaceFrom(_, _, _, _)
replaceDigits(formula, i, d1, nl, d2, nd, colOffset, rowOffset) ==
    IF nl >= 1 /\ nd >= 1
    THEN replaceMatch(SubSeq(formula, i, i + d1 + nl + d2 + nd - 1), d1,
                      SubSeq(formula, i + d1, i + d1 + nl - 1), d2,
                      SubSeq(formula, i + d1 + nl + d2, i + d1 + nl + d2 + nd - 1),
                      colOffset, rowOffset)
         \o replaceFrom(formula, i + d1 + nl + d2 + nd, colOffset, rowOffset)
    ELSE <<formula[i]>> \o replaceFrom(formula, i + 1, colOffset, rowOffset)

replaceDollarRow(formula, i, d1, nl, d2, colOffset, rowOffset) ==
    replaceDigits(formula, i, d1, nl, d2, RunLen(formula, i + d1 + nl + d2, IsDigit),
                  colOffset, rowOffset)

replaceLetters(formula, i, d1, nl, colOffset, rowOffset) ==
    replaceDollarRow(formula, i, d1, nl, DollarAt(formula, i + d1 + nl), colOffset, rowOffset)

replaceDollarCol(formula, i, d1, colOffset, rowOffset) ==
    replaceLetters(formula, i, d1, RunLen(formula, i + d1, IsUpper), colOffset, rowOffset)

replaceFrom(formula, i, colOffset, rowOffset) ==
    IF i > Len(formula) THEN <<>>
    ELSE replaceDollarCol(formula, i, DollarAt(formula, i), colOffset, rowOffset)

transformParsed(formula, from, to) ==
    IF ~from.ok THEN from
    ELSE IF ~to.ok THEN to
    ELSE [ok |-> TRUE, text |-> replaceFrom(formula, 1, to.col - from.col, to.row - from.row)]

transformFormula(formula, fromCell, toCell) ==
    transformParsed(formula, parseAddress(fromCell), parseAddress(toCell))

Min(a, b) == IF a <= b THEN a ELSE b

Max(a, b) == IF a >= b THEN a ELSE b

\* the two nested loops of getCellsInRange: rows outside, columns inside
cellsOfRectangle(minCol, maxCol, minRow, maxRow) ==
    [i \in 1..((maxCol - minCol + 1) * (maxRow - minRow + 1)) |->
        formatAddress(minCol + ((i - 1) % (maxCol - minCol + 1)),
                      minRow + ((i - 1) \div (maxCol - minCol + 1)),
                      FALSE, FALSE).addr]

cellsBetween(start, end) ==
    IF ~start.ok THEN start
    ELSE IF ~end.ok THEN end
    ELSE [ok    |-> TRUE,
          cells |-> cellsOfRectangle(Min(start.col, end.col), Max(start.col, end.col),
                                     Min(start.row, end.row), Max(start.row, end.row))]

\* getCellsInRange: the rectangle between the two corners, row by row
getCellsInRange(startAddr, endAddr) ==
    cellsBetween(parseAddress(startAddr), parseAddress(endAddr))

\* isValidAddress(addr, maxRows, maxCols), given what parseAddress returned
withinExtent(parsed, maxRows, maxCols) ==
    IF ~parsed.ok THEN FALSE
    ELSE parsed.col >= 0 /\ parsed.col < maxCols /\ parsed.row >= 0 /\ parsed.row < maxRows

isValidAddress(addr, maxRows, maxCols) ==
    withinExtent(parseAddress(addr), maxRows, maxCols)

(***************************************************************************)
(* DependencyGraph.  A Map is a function whose domain is the set of keys   *)
(* present; a Set is a duplicate-free sequence in insertion order.         *)
(***************************************************************************)
Range(seq) == {seq[i] : i \in DOMAIN seq}

SetAdd(set, x) == IF x \in Range(set) THEN set ELSE Append(set, x)

SetDelete(set, x) == SelectSeq(set, LAMBDA y : y # x)

MapSet(map, k, v) == [x \in DOMAIN map \cup {k} |-> IF x = k THEN v ELSE map[x]]

MapDelete(map, k) == [x \in DOMAIN map \ {k} |-> map[x]]

EmptyMap == [x \in {} |-> <<>>]

\* addDependency(from, to) on the graph [dependencies |-> D, dependents |-> R]
addDependency(G, from, to) ==
    LET D1 == IF from \in DOMAIN G.dependencies
              THEN G.dependencies ELSE MapSet(G.dependencies, from, <<>>)
        R1 == IF to \in DOMAIN G.dependents
              THEN G.dependents ELSE MapSet(G.dependents, to, <<>>)
    IN  [dependencies |-> MapSet(D1, from, SetAdd(D1[from], to)),
         dependents   |-> MapSet(R1, to, SetAdd(R1[to], from))]

\* removeDependencies forgetting the dependents side
removeDependencies_keepDependents(G, cell) ==
    IF cell \in DOMAIN G.dependencies
    THEN [dependencies |-> MapDelete(G.dependencies, cell),
          dependents   |-> G.dependents]
    ELSE G

\* removeDependencies(cell)
removeDependencies(G, cell) ==
    IF cell \in DOMAIN G.dependencies
    THEN LET deps == G.dependencies[cell]
         IN  [dependencies |-> MapDelete(G.dependencies, cell),
              dependents   |-> [d \in DOMAIN G.dependents |->
                                  IF d \in Range(deps)
                                  THEN SetDelete(G.dependents[d], cell)
                                  ELSE G.dependents[d]]]
    ELSE G

getDependencies(G, cell) ==
    IF cell \in DOMAIN G.dependencies THEN G.dependencies[cell] ELSE <<>>

getDependents(G, cell) ==
    IF cell \in DOMAIN G.dependents THEN G.dependents[cell] ELSE <<>>

\* hasCycle's inner dfs(cell) and its loop over the dependencies of a cell;
\* st = [visited, stack] are the two local sets, r the value returned
RECURSIVE dfs(_, _, _, _), dfsLoop(_, _, _, _, _)
dfs(G, from, cell, st) ==
    IF cell \in st.stack THEN [r |-> TRUE, visited |-> st.visited, stack |-> st.stack]
    ELSE IF cell \in st.visited
    THEN [r |-> FALSE, visited |-> st.visited, stack |-> st.stack]
    ELSE LET st1 == [visited |-> st.visited \cup {cell}, stack |-> st.stack \cup {cell}]
             res == dfsLoop(G, from, getDependencies(G, cell), 1, st1)
         IN  IF res.r THEN res
             ELSE [r |-> FALSE, visited |-> res.visited, stack |-> res.stack \ {cell}]

dfsLoop(G, from, deps, i, st) ==
    IF i > Len(deps) THEN [r |-> FALSE, visited |-> st.visited, stack |-> st.stack]
    ELSE IF deps[i] = from
    THEN [r |-> TRUE, visited |-> st.visited, stack |-> st.stack]
    ELSE LET sub == dfs(G, from, deps[i], st)
         IN  IF sub.r THEN sub
             ELSE dfsLoop(G, from, deps, i + 1,
                          [visited |-> sub.visited, stack |-> sub.stack])

\* hasCycle without the check for a self-reference
hasCycle_noSelfCheck(G, from, to) ==
    dfs(G, from, to, [visited |-> {}, stack |-> {}]).r

hasCycle(G, from, to) ==
    IF from = to THEN TRUE
    ELSE dfs(G, from, to, [visited |-> {}, stack |-> {}]).r

\* getEvaluationOrder's inner visit(cell); st = [visited, result]
RECURSIVE visit(_, _, _), visitAll(_, _, _, _)
\* visit appending a cell again when it meets it a second time
visit_appendVisited(G, cell, st) ==
    IF cell \in st.visited
    THEN [visited |-> st.visited, result |-> Append(st.result, cell)]
    ELSE LET st1 == [visited |-> st.visited \cup {cell}, result |-> st.result]
             st2 == visitAll(G, getDependencies(G, cell), 1, st1)
         IN  [visited |-> st2.visited, result |-> Append(st2.result, cell)]

\* visit appending the cell before its dependencies
visit_cellFirst(G, cell, st) ==
    IF cell \in st.visited THEN st
    ELSE visitAll(G, getDependencies(G, cell), 1,
                  [visited |-> st.visited \cup {cell}, result |-> Append(st.result, cell)])

visit(G, cell, st) ==
    IF cell \in st.visited THEN st
    ELSE LET st1 == [visited |-> st.visited \cup {cell}, result |-> st.result]
             st2 == visitAll(G, getDependencies(G, cell), 1, st1)
         IN  [visited |-> st2.visited, result |-> Append(st2.result, cell)]

visitAll(G, list, i, st) ==
    IF i > Len(list) THEN st
    ELSE visitAll(G, list, i + 1, visit(G, list[i], st))

getEvaluationOrder(G, cellList) ==
    visitAll(G, cellList, 1, [visited |-> {}, result |-> <<>>]).result

(***************************************************************************)
(* Values (CellValue | CellValue[]), tagged by what typeof / Array.isArray *)
(* tell the code about them                                                *)
(***************************************************************************)
Abs(n) == IF n < 0 THEN -n ELSE n

RECURSIVE Gcd(_, _)
Gcd(a, b) == IF b = 0 THEN a ELSE Gcd(b, a % b)

\* the number n/d (d # 0) in lowest terms with a positive denominator
Rat(n, d) ==
    LET g == Gcd(Abs(n), Abs(d))
        s == IF d < 0 THEN -1 ELSE 1
    IN  [t |-> "number", n |-> (s * n) \div g, d |-> (s * d) \div g]

Num(n) == [t |-> "number", n |-> n, d |-> 1]

\* the values exact rationals cannot hold (d = 0): Infinity, -Infinity, NaN
PosInfinity == [t |-> "number", n |-> 1, d |-> 0]

NegInfinity == [t |-> "number", n |-> -1, d |-> 0]

NaN == [t |-> "number", n |-> 0, d |-> 0]

Str(s) == [t |-> "string", s |-> s]

Bool(b) == [t |-> "boolean", b |-> b]

Null == [t |-> "null"]

Arr(items) == [t |-> "array", items |-> items]

IsNumber(v) == v.t = "number"

IsString(v) == v.t = "string"

IsArray(v) == v.t = "array"

IsFinite(a) == a.d # 0

NumAdd(a, b) ==
    IF IsFinite(a) /\ IsFinite(b) THEN Rat(a.n * b.d + b.n * a.d, a.d * b.d) ELSE NaN

NumSub(a, b) ==
    IF IsFinite(a) /\ IsFinite(b) THEN Rat(a.n * b.d - b.n * a.d, a.d * b.d) ELSE NaN

NumMul(a, b) ==
    IF IsFinite(a) /\ IsFinite(b) THEN Rat(a.n * b.n, a.d * b.d) ELSE NaN

\* a / b for b # 0
NumDiv(a, b) ==
    IF IsFinite(a) /\ IsFinite(b) /\ b.n # 0 THEN Rat(a.n * b.d, a.d * b.n) ELSE NaN

\* Math.pow for an integer exponent; any other exponent is outside the model
NumPow(a, b) ==
    IF ~(IsFinite(a) /\ IsFinite(b) /\ b.d = 1) THEN NaN
    ELSE IF b.n >= 0 THEN Rat(a.n ^ b.n, a.d ^ b.n)
    ELSE IF a.n = 0 THEN PosInfinity
    ELSE Rat(a.d ^ (-b.n), a.n ^ (-b.n))

NumNeg(a) == [t |-> "number", n |-> -a.n, d |-> a.d]

\* a < b, with the infinities at the two ends and NaN comparing false
NumLess(a, b) ==
    IF a = NaN \/ b = NaN THEN FALSE
    ELSE IF a = b THEN FALSE
    ELSE IF a = NegInfinity \/ b = PosInfinity THEN TRUE
    ELSE IF a = PosInfinity \/ b = NegInfinity THEN FALSE
    ELSE a.n * b.d < b.n * a.d

\* a === b on numbers
NumEq(a, b) == a # NaN /\ b # NaN /\ a = b

\* the digits of (r * 10^k) / d after the point, k = 1.., until the remainder is 0
\* or left digits have been written (r < d)
RECURSIVE FracDigits(_, _, _)
FracDigits(r, d, left) ==
    IF r = 0 \/ left = 0 THEN <<>>
    ELSE <<Digits[((r * 10) \div d) + 1]>> \o FracDigits((r * 10) % d, d, left - 1)

\* the number of digits String(number) writes after the point at most
MaxFracDigits == 17

\* String(number)
NumToString(a) ==
    IF a = NaN THEN <<"N","a","N">>
    ELSE IF a = PosInfinity THEN <<"I","n","f","i","n","i","t","y">>
    ELSE IF a = NegInfinity THEN <<"-","I","n","f","i","n","i","t","y">>
    ELSE LET m == Abs(a.n)
         IN  (IF a.n < 0 THEN <<"-">> ELSE <<>>) \o NatToString(m \div a.d)
             \o (IF m % a.d = 0 THEN <<>>
                 ELSE <<".">> \o FracDigits(m % a.d, a.d, MaxFracDigits))

\* String(value); an array is joined with commas, null elements written empty
RECURSIVE StringOf(_), StringOfJoin(_, _)
StringOf(v) ==
    CASE v.t = "number"  -> NumToString(v)
      [] v.t = "string"  -> v.s
      [] v.t = "boolean" -> IF v.b THEN <<"t","r","u","e">> ELSE <<"f","a","l","s","e">>
      [] v.t = "null"    -> <<"n","u","l","l">>
      [] v.t = "array"   -> StringOfJoin(v.items, 1)

StringOfJoin(items, i) ==
    IF i > Len(items) THEN <<>>
    ELSE (IF i > 1 THEN <<",">> ELSE <<>>)
         \o (IF items[i].t = "null" THEN <<>> ELSE StringOf(items[i]))
         \o StringOfJoin(items, i + 1)

\* a === b: two arrays are never the same object, NaN is not itself
StrictEquals(a, b) ==
    IF a.t # b.t THEN FALSE
    ELSE IF a.t = "array" THEN FALSE
    ELSE IF a.t = "number" THEN NumEq(a, b)
    ELSE a = b

(***************************************************************************)
(* FormulaEngine: evaluation.  sh is sheet.cells; vis is ctx.visited.  A   *)
(* normal return is [ok |-> TRUE, value, visited] (visited as the call     *)
(* left it), a throw is [ok |-> FALSE, code, msg], code "none" when the    *)
(* Error object carries no code property.                                  *)
(***************************************************************************)
Ok(v, vis) == [ok |-> TRUE, value |-> v, visited |-> vis]

Throw(code, msg) == [ok |-> FALSE, code |-> code, msg |-> msg]

SUM == <<"S","U","M">>

AVG == <<"A","V","G">>

AVERAGE == <<"A","V","E","R","A","G","E">>

MIN == <<"M","I","N">>

MAX == <<"M","A","X">>

COUNT == <<"C","O","U","N","T">>

IFNAME == <<"I","F">>

\* the operands a function folds over: ranges flattened, scalars as they are
RECURSIVE Flatten(_, _)
Flatten(values, i) ==
    IF i > Len(values) THEN <<>>
    ELSE (IF IsArray(values[i]) THEN values[i].items ELSE <<values[i]>>)
         \o Flatten(values, i + 1)

RECURSIVE SumOf(_, _)
SumOf(ops, i) ==
    IF i > Len(ops) THEN Num(0)
    ELSE IF IsNumber(ops[i]) THEN NumAdd(ops[i], SumOf(ops, i + 1))
    ELSE SumOf(ops, i + 1)

CountIf(ops, P(_)) == Cardinality({i \in DOMAIN ops : P(ops[i])})

RECURSIVE MinOf(_, _, _)
MinOf(ops, i, min) ==
    IF i > Len(ops) THEN min
    ELSE MinOf(ops, i + 1,
               IF IsNumber(ops[i]) /\ NumLess(ops[i], min) THEN ops[i] ELSE min)

RECURSIVE MaxOf(_, _, _)
MaxOf(ops, i, max) ==
    IF i > Len(ops) THEN max
    ELSE MaxOf(ops, i + 1,
               IF IsNumber(ops[i]) /\ NumLess(max, ops[i]) THEN ops[i] ELSE max)

IsNotNull(v) == v.t # "null"

\* SUM / AVG / AVERAGE / MIN / MAX / COUNT over the evaluated arguments
aggregate(upperName, values) ==
    LET ops == Flatten(values, 1)
    IN  CASE upperName = SUM -> SumOf(ops, 1)
          [] upperName \in {AVG, AVERAGE} ->
                LET count == CountIf(ops, IsNumber)
                IN  IF count > 0 THEN NumDiv(SumOf(ops, 1), Num(count)) ELSE Num(0)
          [] upperName = MIN ->
                LET min == MinOf(ops, 1, PosInfinity)
                IN  IF min = PosInfinity THEN Num(0) ELSE min
          [] upperName = MAX ->
                LET max == MaxOf(ops, 1, NegInfinity)
                IN  IF max = NegInfinity THEN Num(0) ELSE max
          [] upperName = COUNT -> Num(CountIf(ops, IsNotNull))

\* condition && condition !== 0 && condition !== ""
truthy(condition) ==
    CASE condition.t = "null"    -> FALSE
      [] condition.t = "number"  -> condition.n # 0
      [] condition.t = "string"  -> condition.s # <<>>
      [] condition.t = "boolean" -> condition.b
      [] OTHER                   -> TRUE

\* the Error thrown when rightValue === 0
divisionByZero == Throw("none", "Division by zero")

\* the part of evaluateBinaryOp after both operands are evaluated
binaryValue(op, l, r) ==
    IF IsNumber(l) /\ IsNumber(r)
           /\ op \in {<<"+">>, <<"-">>, <<"*">>, <<"/">>, <<"^">>, <<"<">>,
                      <<"<", "=">>, <<">">>, <<">", "=">>, <<"=">>, <<"<", ">">>}
    THEN CASE op = <<"+">> -> [ok |-> TRUE, value |-> NumAdd(l, r)]
           [] op = <<"-">> -> [ok |-> TRUE, value |-> NumSub(l, r)]
           [] op = <<"*">> -> [ok |-> TRUE, value |-> NumMul(l, r)]
           [] op = <<"/">> -> IF r.n = 0 /\ r.d # 0
                              THEN divisionByZero
                              ELSE [ok |-> TRUE, value |-> NumDiv(l, r)]
           [] op = <<"^">> -> [ok |-> TRUE, value |-> NumPow(l, r)]
           [] op = <<"<">> -> [ok |-> TRUE, value |-> Bool(NumLess(l, r))]
           [] op = <<"<", "=">> ->
                  [ok |-> TRUE, value |-> Bool(NumLess(l, r) \/ NumEq(l, r))]
           [] op = <<">">> -> [ok |-> TRUE, value |-> Bool(NumLess(r, l))]
           [] op = <<">", "=">> ->
                  [ok |-> TRUE, value |-> Bool(NumLess(r, l) \/ NumEq(l, r))]
           [] op = <<"=">> -> [ok |-> TRUE, value |-> Bool(NumEq(l, r))]
           [] op = <<"<", ">">> -> [ok |-> TRUE, value |-> Bool(~NumEq(l, r))]
    ELSE IF op = <<"+">> /\ (IsString(l) \/ IsString(r))
    THEN [ok |-> TRUE, value |-> Str(StringOf(l) \o StringOf(r))]
    ELSE IF op = <<"=">> THEN [ok |-> TRUE, value |-> Bool(StrictEquals(l, r))]
    ELSE IF op = <<"<", ">">> THEN [ok |-> TRUE, value |-> Bool(~StrictEquals(l, r))]
    ELSE Throw("none", "Invalid operation")

\* the Error evaluateCellRef throws, with its code property set to CYCLE
cycleError_uncoded == Throw("none", "Circular reference detected")

cycleError == Throw("CYCLE", "Circular reference detected")

\* the Error of the default case of evaluateFunction
unknownFunction_asParseError == Throw("PARSE", "Unknown function")

unknownFunction == Throw("none", "Unknown function")

\* evaluateCell's catch without the `|| "EVAL"` default: an exception that
\* carries no code yields an error whose code is undefined
caught_rawCode(e) ==
    [value |-> Null, error |-> [code |-> e.code, message |-> e.msg]]

\* the catch block of evaluateCell: the EvalResult made of the caught failure e
caught(e) ==
    [value |-> Null,
     error |-> [code |-> IF e.code = "none" THEN "EVAL" ELSE e.code, message |-> e.msg]]

RECURSIVE evaluateAst(_, _, _), evaluateCellRef(_, _, _), evaluateRange(_, _, _, _, _),
          evaluateRangeCells(_, _, _),
          evaluateArgs(_, _, _, _, _), evaluateFunction(_, _, _, _),
          evaluateBinaryOp(_, _, _, _, _)

\* evaluateCellRef emptying visited on the way out of a formula cell instead of
\* deleting the one address
evaluateCellRef_clearVisited(sh, address, vis) ==
    IF address \in vis THEN cycleError
    ELSE LET vis1 == vis \cup {address}
         IN  IF address \notin DOMAIN sh THEN Ok(Null, vis1)
             ELSE IF sh[address].kind = "literal" THEN Ok(sh[address].value, vis1)
             ELSE IF sh[address].kind = "formula"
             THEN LET result == evaluateAst(sh, sh[address].ast, vis1)
                  IN  IF ~result.ok THEN result
                      ELSE IF IsArray(result.value)
                      THEN Throw("none", "Reference to cell evaluates to range")
                      ELSE Ok(result.value, {})
             ELSE Ok(Null, vis1)

evaluateCellRef(sh, address, vis) ==
    IF address \in vis THEN cycleError
    ELSE LET vis1 == vis \cup {address}
         IN  IF address \notin DOMAIN sh THEN Ok(Null, vis1)
             ELSE IF sh[address].kind = "literal" THEN Ok(sh[address].value, vis1)
             ELSE IF sh[address].kind = "formula"
             THEN LET result == evaluateAst(sh, sh[address].ast, vis1)
                  IN  IF ~result.ok THEN result
                      ELSE IF IsArray(result.value)
                      THEN Throw("none", "Reference to cell evaluates to range")
                      ELSE Ok(result.value, result.visited \ {address})
             ELSE Ok(Null, vis1)

\* cells.map((addr) => this.evaluateCellRef(addr, ctx))
evaluateRange(sh, addrs, i, vis, acc) ==
    IF i > Len(addrs) THEN Ok(Arr(acc), vis)
    ELSE LET r == evaluateCellRef(sh, addrs[i], vis)
         IN  IF ~r.ok THEN r
             ELSE evaluateRange(sh, addrs, i + 1, r.visited, Append(acc, r.value))

\* the range case of evaluateAst, given what getCellsInRange returned
evaluateRangeCells(sh, rng, vis) ==
    IF ~rng.ok THEN Throw("none", rng.msg)
    ELSE evaluateRange(sh, rng.cells, 1, vis, <<>>)

\* for (const arg of args) this.evaluateAst(arg, ctx), left to right
evaluateArgs(sh, args, i, vis, acc) ==
    IF i > Len(args) THEN [ok |-> TRUE, values |-> acc, visited |-> vis]
    ELSE LET r == evaluateAst(sh, args[i], vis)
         IN  IF ~r.ok THEN r
             ELSE evaluateArgs(sh, args, i + 1, r.visited, Append(acc, r.value))

evaluateFunction(sh, name, args, vis) ==
    LET upperName == ToUpperCase(name)
    IN  IF upperName \in {SUM, AVG, AVERAGE, MIN, MAX, COUNT}
        THEN LET a == evaluateArgs(sh, args, 1, vis, <<>>)
             IN  IF ~a.ok THEN a ELSE Ok(aggregate(upperName, a.values), a.visited)
        ELSE IF upperName = IFNAME
        THEN IF Len(args) # 3 THEN Throw("none", "IF requires exactly 3 arguments")
             ELSE LET c == evaluateAst(sh, args[1], vis)
                  IN  IF ~c.ok THEN c
                      ELSE IF IsArray(c.value)
                      THEN Throw("none", "IF condition: ranges are not allowed here")
                      ELSE LET b == evaluateAst(sh,
                                        args[IF truthy(c.value) THEN 2 ELSE 3],
                                        c.visited)
                           IN  IF ~b.ok THEN b
                               ELSE IF IsArray(b.value)
                               THEN Throw("none",
                                      "IF branch result: ranges are not allowed here")
                               ELSE b
        ELSE unknownFunction

evaluateBinaryOp(sh, op, left, right, vis) ==
    LET l == evaluateAst(sh, left, vis)
    IN  IF ~l.ok THEN l
        ELSE LET r == evaluateAst(sh, right, l.visited)
             IN  IF ~r.ok THEN r
                 ELSE LET v == binaryValue(op, l.value, r.value)
                      IN  IF v.ok THEN Ok(v.value, r.visited) ELSE v

evaluateAst(sh, ast, vis) ==
    CASE ast.type \in {"number", "string", "boolean"} -> Ok(ast.value, vis)
      [] ast.type = "ref" -> evaluateCellRef(sh, ast.address, vis)
      [] ast.type = "range" ->
            evaluateRangeCells(sh, getCellsInRange(ast.start, ast.end), vis)
      [] ast.type = "function" -> evaluateFunction(sh, ast.name, ast.args, vis)
      [] ast.type = "binary" -> evaluateBinaryOp(sh, ast.op, ast.left, ast.right, vis)
      [] ast.type = "unary" ->
            LET r == evaluateAst(sh, ast.operand, vis)
            IN  IF ~r.ok THEN r
                ELSE IF IsNumber(r.value) THEN Ok(NumNeg(r.value), r.visited)
                ELSE Throw("none", "Cannot negate non-number")
      [] OTHER -> Throw("none", "Unknown AST node type")

\* the try block of evaluateCell after evaluateAst returned or threw r
cellResult(r) ==
    IF ~r.ok THEN caught(r)
    ELSE IF IsArray(r.value)
    THEN caught(Throw("none", "Bare range cannot be a cell value"))
    ELSE [value |-> r.value]

\* evaluateCell(sheet, address): an EvalResult, with an error field only on failure
evaluateCell(sh, address) ==
    IF address \notin DOMAIN sh THEN [value |-> Null]
    ELSE IF sh[address].kind = "literal" THEN [value |-> sh[address].value]
    ELSE IF sh[address].kind = "error"
    THEN [value |-> Null,
          error |-> [code |-> sh[address].code, message |-> sh[address].message]]
    ELSE IF sh[address].kind = "formula"
    THEN cellResult(evaluateAst(sh, sh[address].ast, {address}))
    ELSE [value |-> Null]

IsFormulaAt(sh, a) == a \in DOMAIN sh /\ sh[a].kind = "formula"

\* evaluateSheet giving up at the first cell that fails
evaluateSheet_stopAtFailure(G, sh, keyOrder) ==
    LET formulaCells == SelectSeq(keyOrder, LAMBDA a : IsFormulaAt(sh, a))
        failed(i)    == "error" \in DOMAIN evaluateCell(sh, formulaCells[i])
        n            == Cardinality({i \in DOMAIN formulaCells :
                                        \A j \in 1..(i - 1) : ~failed(j)})
    IN  [i \in 1..n |-> [addr |-> formulaCells[i],
                         result |-> evaluateCell(sh, formulaCells[i])]]

\* evaluateSheet keeping one visited set for all the cells it evaluates
evaluateSheet_sharedVisited(G, sh, keyOrder) ==
    LET formulaCells == SelectSeq(keyOrder, LAMBDA a : IsFormulaAt(sh, a))
    IN  [i \in DOMAIN formulaCells |->
            [addr   |-> formulaCells[i],
             result |-> cellResult(evaluateAst(sh, sh[formulaCells[i]].ast,
                                               {formulaCells[j] : j \in 1..i}))]]

\* evaluateSheet leaving out the entries its previous call already returned
evaluateSheet_skipReturned(G, sh, keyOrder) ==
    LET formulaCells == SelectSeq(keyOrder, LAMBDA a : IsFormulaAt(sh, a))
        order        == getEvaluationOrder(G, formulaCells)
        results      == [i \in DOMAIN order |->
                            [addr |-> order[i], result |-> evaluateCell(sh, order[i])]]
    IN  IF ret.op = "evaluateSheet"
        THEN SelectSeq(results, LAMBDA e : e \notin Range(ret.results))
        ELSE results

\* evaluateSheet(sheet): the Map, as its entries in insertion order
evaluateSheet(G, sh, keyOrder) ==
    LET formulaCells == SelectSeq(keyOrder, LAMBDA a : IsFormulaAt(sh, a))
        order        == getEvaluationOrder(G, formulaCells)
    IN  [i \in DOMAIN order |-> [addr |-> order[i], result |-> evaluateCell(sh, order[i])]]

(***************************************************************************)
(* Lexer.  A position is the 1-based index of the next character; a token  *)
(* carries next, the lexer's position after it.                            *)
(***************************************************************************)
Token(type, value, pos, next) ==
    [type |-> type, value |-> value, pos |-> pos, next |-> next]

\* new Lexer(input): a leading = is dropped
lexerInput(input) ==
    IF Len(input) >= 1 /\ input[1] = "=" THEN Tail(input) ELSE input

IsNumberChar(c) == IsDigit(c) \/ c = "."

IsNotQuote(c) == c # "\""

IsOperatorChar(c) == c \in {"+", "-", "*", "/", "^", "<", ">", "="}

\* Lexer.nextToken with this.input = inp and this.pos = at - 1
nextToken(inp, at) ==
    LET p == at + RunLen(inp, at, IsSpace)
    IN  IF p > Len(inp) THEN Token("EOF", <<>>, p, p)
        ELSE LET char == inp[p]
             IN  IF IsOperatorChar(char)
                 THEN IF p + 1 <= Len(inp)
                         /\ ((char = "<" /\ inp[p + 1] \in {"=", ">"})
                             \/ (char = ">" /\ inp[p + 1] = "="))
                      THEN Token("OPERATOR", <<char, inp[p + 1]>>, p, p + 2)
                      ELSE Token("OPERATOR", <<char>>, p, p + 1)
                 ELSE IF char = "(" THEN Token("LPAREN", <<"(">>, p, p + 1)
                 ELSE IF char = ")" THEN Token("RPAREN", <<")">>, p, p + 1)
                 ELSE IF char = "," THEN Token("COMMA", <<",">>, p, p + 1)
                 ELSE IF char = ":" THEN Token("COLON", <<":">>, p, p + 1)
                 ELSE IF char = "\""
                 THEN LET n == RunLen(inp, p + 1, IsNotQuote)
                      IN  Token("STRING", SubSeq(inp, p + 1, p + n), p,
                                IF p + 1 + n <= Len(inp) THEN p + n + 2 ELSE p + n + 1)
                 ELSE IF IsDigit(char)
                         \/ (char = "." /\ p + 1 <= Len(inp) /\ IsDigit(inp[p + 1]))
                 THEN LET n == RunLen(inp, p, IsNumberChar)
                      IN  Token("NUMBER", SubSeq(inp, p, p + n - 1), p, p + n)
                 ELSE IF IsLetter(char)
                 THEN LET nl == RunLen(inp, p, IsLetter)
                          nd == RunLen(inp, p + nl, IsDigit)
                          letters == ToUpperCase(SubSeq(inp, p, p + nl - 1))
                      IN  IF nd >= 1
                          THEN Token("CELL_REF",
                                     letters \o SubSeq(inp, p + nl, p + nl + nd - 1),
                                     p, p + nl + nd)
                          ELSE IF p + nl <= Len(inp) /\ inp[p + nl] = "("
                          THEN Token("FUNCTION", letters, p, p + nl)
                          ELSE Token("CELL_REF", letters, p, p + nl)
                 ELSE Token("EOF", <<char>>, p, p + 1)

(***************************************************************************)
(* Parser.  The parser's state is its current token; a result is           *)
(* [ok |-> TRUE, ast, cur] or a throw [ok |-> FALSE, msg].                 *)
(***************************************************************************)
PRECEDENCE(op) ==
    CASE op \in {<<"=">>, <<"<", ">">>} -> 1
      [] op \in {<<"<">>, <<"<", "=">>, <<">">>, <<">", "=">>} -> 2
      [] op \in {<<"+">>, <<"-">>} -> 3
      [] op \in {<<"*">>, <<"/">>} -> 4
      [] op = <<"^">> -> 5
      [] OTHER -> 0

ParseFail(msg) == [ok |-> FALSE, msg |-> msg]

Parsed(ast, cur) == [ok |-> TRUE, ast |-> ast, cur |-> cur]

advance(inp, cur) == nextToken(inp, cur.next)

\* parseFloat of a NUMBER token's text: digits, then at most one point and digits
parseFloat(text) ==
    LET ni   == RunLen(text, 1, IsDigit)
        nf   == IF ni + 1 <= Len(text) /\ text[ni + 1] = "."
                THEN RunLen(text, ni + 2, IsDigit) ELSE 0
        int  == SubSeq(text, 1, ni)
        frac == SubSeq(text, ni + 2, ni + 1 + nf)
    IN  Rat(ParseInt(int \o frac), 10 ^ nf)

RECURSIVE parseExpression(_, _, _), parseExpressionLoop(_, _, _, _),
          parsePrimary(_, _), parseArguments(_, _, _)

parseExpression(inp, cur, minPrecedence) ==
    LET left == parsePrimary(inp, cur)
    IN  IF ~left.ok THEN left
        ELSE parseExpressionLoop(inp, left.ast, left.cur, minPrecedence)

\* the while loop re-entering parseExpression at precedence, not precedence + 1
parseExpressionLoop_samePrecedence(inp, left, cur, minPrecedence) ==
    IF cur.type # "OPERATOR" THEN Parsed(left, cur)
    ELSE LET op == cur.value
             precedence == PRECEDENCE(op)
         IN  IF precedence < minPrecedence THEN Parsed(left, cur)
             ELSE LET right == parseExpression(inp, advance(inp, cur), precedence)
                  IN  IF ~right.ok THEN right
                      ELSE parseExpressionLoop(inp,
                               [type |-> "binary", op |-> op,
                                left |-> left, right |-> right.ast],
                               right.cur, minPrecedence)

\* the while loop of parseExpression, entered with left and the current token
parseExpressionLoop(inp, left, cur, minPrecedence) ==
    IF cur.type # "OPERATOR" THEN Parsed(left, cur)
    ELSE LET op == cur.value
             precedence == PRECEDENCE(op)
         IN  IF precedence < minPrecedence THEN Parsed(left, cur)
             ELSE LET right == parseExpression(inp, advance(inp, cur), precedence + 1)
                  IN  IF ~right.ok THEN right
                      ELSE parseExpressionLoop(inp,
                               [type |-> "binary", op |-> op,
                                left |-> left, right |-> right.ast],
                               right.cur, minPrecedence)

\* the comma loop of a function call, entered after an argument was parsed
parseArguments(inp, args, cur) ==
    IF cur.type # "COMMA" THEN [ok |-> TRUE, args |-> args, cur |-> cur]
    ELSE LET arg == parseExpression(inp, advance(inp, cur), 0)
         IN  IF ~arg.ok THEN arg
             ELSE parseArguments(inp, Append(args, arg.ast), arg.cur)

parsePrimary(inp, cur) ==
    CASE cur.type = "NUMBER" ->
            Parsed([type |-> "number", value |-> parseFloat(cur.value)],
                   advance(inp, cur))
      [] cur.type = "STRING" ->
            Parsed([type |-> "string", value |-> Str(cur.value)], advance(inp, cur))
      [] cur.type = "CELL_REF" ->
            LET cur1 == advance(inp, cur)
                cur2 == advance(inp, cur1)
                a1   == ToCellAddress(cur.value)
                a2   == ToCellAddress(cur2.value)
            IN  IF cur1.type = "COLON"
                THEN IF cur2.type # "CELL_REF"
                     THEN ParseFail("Expected cell reference after colon")
                     ELSE IF ~a1.ok THEN ParseFail(a1.msg)
                     ELSE IF ~a2.ok THEN ParseFail(a2.msg)
                     ELSE Parsed([type |-> "range", start |-> a1.addr, end |-> a2.addr],
                                 advance(inp, cur2))
                ELSE IF ~a1.ok THEN ParseFail(a1.msg)
                ELSE Parsed([type |-> "ref", address |-> a1.addr,
                             absolute |-> [col |-> FALSE, row |-> FALSE]], cur1)
      [] cur.type = "FUNCTION" ->
            LET cur1 == advance(inp, cur)
                cur2 == advance(inp, cur1)
                first == parseExpression(inp, cur2, 0)
                rest  == parseArguments(inp, <<first.ast>>, first.cur)
                done  == IF cur2.type = "RPAREN"
                         THEN [ok |-> TRUE, args |-> <<>>, cur |-> cur2]
                         ELSE IF ~first.ok THEN first
                         ELSE rest
            IN  IF cur1.type # "LPAREN" THEN ParseFail("Expected LPAREN")
                ELSE IF ~done.ok THEN done
                ELSE IF done.cur.type # "RPAREN" THEN ParseFail("Expected RPAREN")
                ELSE Parsed([type |-> "function", name |-> cur.value,
                             args |-> done.args], advance(inp, done.cur))
      [] cur.type = "LPAREN" ->
            LET expr == parseExpression(inp, advance(inp, cur), 0)
            IN  IF ~expr.ok THEN expr
                ELSE IF expr.cur.type # "RPAREN" THEN ParseFail("Expected RPAREN")
                ELSE Parsed(expr.ast, advance(inp, expr.cur))
      [] cur.type = "OPERATOR" /\ cur.value = <<"-">> ->
            LET operand == parsePrimary(inp, advance(inp, cur))
            IN  IF ~operand.ok THEN operand
                ELSE Parsed([type |-> "unary", op |-> <<"-">>,
                             operand |-> operand.ast], operand.cur)
      [] OTHER -> ParseFail("Unexpected token")

\* new Parser(input).parse()
parse(input) ==
    LET inp    == lexerInput(input)
        result == parseExpression(inp, nextToken(inp, 1), 0)
    IN  IF ~result.ok THEN result
        ELSE IF result.cur.type # "EOF" THEN ParseFail("Unexpected token")
        ELSE result

\* parseFormula(input): the AST, or a throw whose message starts "Parse error: "
parseFormula(input) ==
    LET result == parse(input)
    IN  IF result.ok THEN [ok |-> TRUE, ast |-> result.ast]
        ELSE [ok |-> FALSE, msg |-> "Parse error"]

\* updateCell registering the reference a formula starts with, as the comment
\* in the code says a production engine would
updateCell_registerLeftRef(G, sh, keyOrder, address, cell) ==
    LET G0 == IF cell.kind = "formula" THEN removeDependencies(G, address) ELSE G
        G1 == IF cell.kind = "formula" /\ cell.ast.type = "binary"
                 /\ cell.ast.left.type = "ref"
              THEN addDependency(G0, address, cell.ast.left.address) ELSE G0
    IN  [cells     |-> MapSet(sh, address, cell),
         keys      |-> SetAdd(keyOrder, address),
         graph     |-> G1,
         evaluated |-> getDependents(G1, address)]

\* updateCell(sheet, address, cell): the sheet and graph after the call, and the
\* dependents it re-evaluated (their results are discarded by the code)
updateCell(G, sh, keyOrder, address, cell) ==
    LET G1 == IF cell.kind = "formula" THEN removeDependencies(G, address) ELSE G
    IN  [cells     |-> MapSet(sh, address, cell),
         keys      |-> SetAdd(keyOrder, address),
         graph     |-> G1,
         evaluated |-> getDependents(G1, address)]

\* how the callers build a cell from formula text: parseFormula in a try block,
\* an Error cell with code PARSE in its catch
formulaCell(src) ==
    LET parsed == parseFormula(src)
    IN  IF parsed.ok THEN [kind |-> "formula", src |-> src, ast |-> parsed.ast]
        ELSE [kind |-> "error", code |-> "PARSE", message |-> "Failed to parse formula"]

literalCell(v) == [kind |-> "literal", value |-> v]

(***************************************************************************)
(* Bounds and inputs                                                       *)
(***************************************************************************)
\* literal cells hold the numbers 0..MaxNum
MaxNum == 1

\* a DependencyGraph driven directly holds at most MaxEdges edges
MaxEdges == 4

\* the longest list of cells handed to getEvaluationOrder
MaxList == 2

A1 == <<"A", "1">>

A2 == <<"A", "2">>

A3 == <<"A", "3">>

Z99 == <<"Z", "9", "9">>

\* the addresses edited, evaluated and used as graph nodes
Addrs == {A1, A2, A3}

\* the extent of the sheets the application creates
SheetRows == 20

SheetCols == 10

\* formula texts entered into cells
Sources == {
    <<"=", "A", "1", "+", "1">>,
    <<"=", "A", "2", "+", "1">>,
    <<"=", "A", "3", "+", "1">>,
    <<"=", "A", "2", "+", "A", "3">>,
    <<"=", "S", "U", "M", "(", "A", "2", ":", "A", "3", ")">>,
    <<"=", "I", "F", "(", "1", ",", "5", ",", "A", "2", ")">>,
    <<"=", "1", "/", "0">>,
    <<"=", "S", "U", "M", "(", "Z", "9", "9", ")">>,
    <<"=", "U", "N", "K", "N", "O", "W", "N", "(", ")">>,
    <<"=", "f", "o", "o", "(", "A", "2", ")">>,
    <<"=", "A", "2", ":", "A", "3">>,
    <<"=", "(", "1">> }

\* the cells written into a sheet
CellInputs ==
    {formulaCell(src) : src \in Sources} \cup {literalCell(Num(n)) : n \in 0..MaxNum}

NoRet == [op |-> "none"]

Graph == [dependencies |-> dependencies, dependents |-> dependents]

Init ==
    /\ dependencies = EmptyMap
    /\ dependents = EmptyMap
    /\ cells = EmptyMap
    /\ keys = <<>>
    /\ ret = NoRet

(***************************************************************************)
(* The FormulaEngine singleton and the sheet it is handed                  *)
(***************************************************************************)
UpdateCell(address, cell) ==
    LET u == updateCell(Graph, cells, keys, address, cell)
    IN  /\ cells' = u.cells
        /\ keys' = u.keys
        /\ dependencies' = u.graph.dependencies
        /\ dependents' = u.graph.dependents
        /\ ret' = [op |-> "updateCell", evaluated |-> u.evaluated]

EvaluateSheet ==
    /\ ret' = [op |-> "evaluateSheet", results |-> evaluateSheet(Graph, cells, keys)]
    /\ UNCHANGED <<dependencies, dependents, cells, keys>>

EvaluateCell(address) ==
    /\ ret' = [op |-> "evaluateCell", address |-> address,
               result |-> evaluateCell(cells, address)]
    /\ UNCHANGED <<dependencies, dependents, cells, keys>>

NextEngine ==
    \/ \E address \in Addrs, cell \in CellInputs : UpdateCell(address, cell)
    \/ EvaluateSheet
    \/ \E address \in Addrs : EvaluateCell(address)

SpecEngine == Init /\ [][NextEngine]_vars

(***************************************************************************)
(* A DependencyGraph driven through its public methods                     *)
(***************************************************************************)
EdgeCount(G) ==
    Cardinality({e \in Addrs \X Addrs : e[2] \in Range(getDependencies(G, e[1]))})

AddDependency(from, to) ==
    /\ \/ to \in Range(getDependencies(Graph, from))
       \/ EdgeCount(Graph) < MaxEdges
    /\ LET G == addDependency(Graph, from, to)
       IN  /\ dependencies' = G.dependencies
           /\ dependents' = G.dependents
    /\ ret' = NoRet
    /\ UNCHANGED <<cells, keys>>

RemoveDependencies(cell) ==
    /\ LET G == removeDependencies(Graph, cell)
       IN  /\ dependencies' = G.dependencies
           /\ dependents' = G.dependents
    /\ ret' = NoRet
    /\ UNCHANGED <<cells, keys>>

HasCycle(from, to) ==
    /\ ret' = [op |-> "hasCycle", from |-> from, to |-> to,
               value |-> hasCycle(Graph, from, to)]
    /\ UNCHANGED <<dependencies, dependents, cells, keys>>

\* the lists of cells a caller may hand to getEvaluationOrder
CellLists == UNION {[1..n -> Addrs] : n \in 0..MaxList}

GetEvaluationOrder(cellList) ==
    /\ ret' = [op |-> "getEvaluationOrder", cells |-> cellList,
               order |-> getEvaluationOrder(Graph, cellList)]
    /\ UNCHANGED <<dependencies, dependents, cells, keys>>

NextGraph ==
    \/ \E from \in Addrs, to \in Addrs : AddDependency(from, to)
    \/ \E cell \in Addrs : RemoveDependencies(cell)
    \/ \E from \in Addrs, to \in Addrs : HasCycle(from, to)
    \/ \E cellList \in CellLists : GetEvaluationOrder(cellList)

SpecGraph == Init /\ [][NextGraph]_vars

(***************************************************************************)
(* Reading sheets and return values                                        *)
(***************************************************************************)
\* the (formula cell, EvalResult) pairs the most recent call returned
Evaluated ==
    IF ret.op = "evaluateSheet" THEN Range(ret.results)
    ELSE IF ret.op = "evaluateCell" /\ IsFormulaAt(cells, ret.address)
    THEN {[addr |-> ret.address, result |-> ret.result]}
    ELSE {}

HasError(r) == "error" \in DOMAIN r

ErrorCode(r) == IF HasError(r) THEN r.error.code ELSE "none"

Builtins == {SUM, AVG, AVERAGE, MIN, MAX, COUNT, IFNAME}

\* every address an AST mentions, ranges expanded
RECURSIVE Refs(_)
Refs(ast) ==
    CASE ast.type = "ref" -> {ast.address}
      [] ast.type = "range" -> Range(getCellsInRange(ast.start, ast.end).cells)
      [] ast.type = "function" -> UNION {Refs(ast.args[i]) : i \in DOMAIN ast.args}
      [] ast.type = "binary" -> Refs(ast.left) \cup Refs(ast.right)
      [] ast.type = "unary" -> Refs(ast.operand)
      [] OTHER -> {}

\* the addresses an AST mentions outside the two branches of an IF
RECURSIVE StrictRefs(_)
StrictRefs(ast) ==
    CASE ast.type = "ref" -> {ast.address}
      [] ast.type = "range" -> Range(getCellsInRange(ast.start, ast.end).cells)
      [] ast.type = "function" ->
            IF ToUpperCase(ast.name) = IFNAME /\ Len(ast.args) = 3
            THEN StrictRefs(ast.args[1])
            ELSE UNION {StrictRefs(ast.args[i]) : i \in DOMAIN ast.args}
      [] ast.type = "binary" -> StrictRefs(ast.left) \cup StrictRefs(ast.right)
      [] ast.type = "unary" -> StrictRefs(ast.operand)
      [] OTHER -> {}

\* the address an AST reads before anything else in it is evaluated or can fail
\* (a set with at most one element)
RECURSIVE FirstRef(_)
FirstRef(ast) ==
    CASE ast.type = "ref" -> {ast.address}
      [] ast.type = "range" ->
            {getCellsInRange(ast.start, ast.end).cells[i] : i \in {1}}
      [] ast.type = "function" ->
            IF \/ ToUpperCase(ast.name) \in Builtins \ {IFNAME} /\ Len(ast.args) >= 1
               \/ ToUpperCase(ast.name) = IFNAME /\ Len(ast.args) = 3
            THEN FirstRef(ast.args[1])
            ELSE {}
      [] ast.type = "binary" -> FirstRef(ast.left)
      [] ast.type = "unary" -> FirstRef(ast.operand)
      [] OTHER -> {}

CellRefs(sh, a) == IF IsFormulaAt(sh, a) THEN Refs(sh[a].ast) ELSE {}

CellStrictRefs(sh, a) == IF IsFormulaAt(sh, a) THEN StrictRefs(sh[a].ast) ELSE {}

CellFirstRef(sh, a) == IF IsFormulaAt(sh, a) THEN FirstRef(sh[a].ast) ELSE {}

\* the addresses reachable from the set S along references (S included)
RECURSIVE ReachClosure(_, _)
ReachClosure(sh, S) ==
    LET N == S \cup UNION {CellRefs(sh, a) : a \in S}
    IN  IF N = S THEN S ELSE ReachClosure(sh, N)

Reach(sh, a) == ReachClosure(sh, {a})

OnCycle(sh, a) == a \in ReachClosure(sh, CellRefs(sh, a))

RECURSIVE StrictClosure(_, _)
StrictClosure(sh, S) ==
    LET N == S \cup UNION {CellStrictRefs(sh, a) : a \in S}
    IN  IF N = S THEN S ELSE StrictClosure(sh, N)

Restrict(sh, S) == [a \in DOMAIN sh \cap S |-> sh[a]]

(***************************************************************************)
(* Claims about evaluation, checked under SpecEngine                       *)
(***************************************************************************)
\* C1 (as stated): in a sheet where formula cell A references B and B references
\* A (or A references itself), every evaluation of A returns the error CYCLE.
C1_MutualReferenceIsCycle ==
    \A e \in Evaluated :
        (\E b \in DOMAIN cells :
            /\ IsFormulaAt(cells, b)
            /\ b \in CellRefs(cells, e.addr)
            /\ e.addr \in CellRefs(cells, b))
        => ErrorCode(e.result) = "CYCLE"

\* C1 (amended): when A and B reference each other outside the branches of an
\* IF (or A so references itself), every evaluation of A returns an error; the
\* code is CYCLE when each of the two references is the first operand its
\* formula evaluates.
C1_CycleIsError ==
    \A e \in Evaluated : \A b \in DOMAIN cells :
        /\ (/\ IsFormulaAt(cells, b)
            /\ b \in CellStrictRefs(cells, e.addr)
            /\ e.addr \in CellStrictRefs(cells, b))
           => HasError(e.result)
        /\ (/\ IsFormulaAt(cells, b)
            /\ CellFirstRef(cells, e.addr) = {b}
            /\ CellFirstRef(cells, b) = {e.addr})
           => ErrorCode(e.result) = "CYCLE"

\* two distinct formula cells whose first operands are each other, both
\* returned with CYCLE by one evaluateSheet
C1_Witness ==
    /\ ret.op = "evaluateSheet"
    /\ \E e1 \in Evaluated, e2 \in Evaluated :
        /\ e1.addr # e2.addr
        /\ CellFirstRef(cells, e1.addr) = {e2.addr}
        /\ CellFirstRef(cells, e2.addr) = {e1.addr}
        /\ ErrorCode(e1.result) = "CYCLE"
        /\ ErrorCode(e2.result) = "CYCLE"

\* C2: when no cell reachable from a formula cell lies on a reference cycle, the
\* cell does not evaluate to CYCLE.
C2_NoFalseCycle ==
    \A e \in Evaluated :
        (\A c \in Reach(cells, e.addr) : ~OnCycle(cells, c))
        => ErrorCode(e.result) # "CYCLE"

DividesByZero(ast) ==
    /\ ast.type = "binary"
    /\ ast.op = <<"/">>
    /\ ast.left.type = "number"
    /\ ast.right.type = "number"
    /\ ast.right.value = Num(0)

\* C3: a formula dividing a number by exactly zero evaluates to the error DIV0.
C3_DivisionByZeroIsDIV0 ==
    \A e \in Evaluated :
        DividesByZero(cells[e.addr].ast) => ErrorCode(e.result) = "DIV0"

\* C4: a formula referencing an address outside the sheet's extent evaluates to
\* the error REF.
C4_OutOfExtentIsREF ==
    \A e \in Evaluated :
        (\E a \in CellRefs(cells, e.addr) : ~isValidAddress(a, SheetRows, SheetCols))
        => ErrorCode(e.result) = "REF"

\* the formula text starts with a call of a function that is not built in
CallsUnknown(src) ==
    /\ nextToken(lexerInput(src), 1).type = "FUNCTION"
    /\ nextToken(lexerInput(src), 1).value \notin Builtins

FormulaAddrs(sh) == {a \in DOMAIN sh : sh[a].kind = "formula"}

ErrorCodes == {"CYCLE", "REF", "PARSE", "DIV0", "EVAL"}

\* an EvalResult: a scalar value alone, or null with an error code and a message
IsEvalResult(r) ==
    \/ /\ DOMAIN r = {"value"}
       /\ r.value.t \in {"number", "string", "boolean", "null"}
    \/ /\ DOMAIN r = {"value", "error"}
       /\ r.value = Null
       /\ DOMAIN r.error = {"code", "message"}
       /\ r.error.code \in ErrorCodes
       /\ r.error.message \in STRING

\* C6: evaluateSheet returns a map whose keys are exactly the addresses of the
\* sheet's formula cells, one entry each, and every entry is a scalar value or
\* an error code with a message; a failing cell does not cut the map short.
C6_SheetResultsCoverFormulaCells ==
    ret.op = "evaluateSheet" =>
        /\ {ret.results[i].addr : i \in DOMAIN ret.results} = FormulaAddrs(cells)
        /\ Len(ret.results) = Cardinality(FormulaAddrs(cells))
        /\ \A i \in DOMAIN ret.results : IsEvalResult(ret.results[i].result)

\* evaluateSheet has returned a map in which a failed cell comes before a cell
\* that evaluated to a number, next to a cell that is not a formula
C6_Witness ==
    /\ ret.op = "evaluateSheet"
    /\ DOMAIN cells # FormulaAddrs(cells)
    /\ \E i \in DOMAIN ret.results, j \in DOMAIN ret.results :
        /\ i < j
        /\ HasError(ret.results[i].result)
        /\ ~HasError(ret.results[j].result)
        /\ IsNumber(ret.results[j].result.value)

\* C7: the result evaluateSheet gives a formula cell X is the result of
\* evaluating X in the sheet cut down to the cells reachable from X, so it is
\* the same in any two sheets that agree on those cells, whatever the other
\* cells are and whatever the order of the cells.
C7_ResultDependsOnReachableCells ==
    ret.op = "evaluateSheet" =>
        \A e \in Evaluated :
            e.result = evaluateCell(Restrict(cells, Reach(cells, e.addr)), e.addr)

\* evaluateSheet has returned a number for a cell that references another cell,
\* in a sheet holding a broken cell it cannot reach that was stored before it
C7_Witness ==
    /\ ret.op = "evaluateSheet"
    /\ \E e \in Evaluated :
        /\ IsNumber(e.result.value)
        /\ Reach(cells, e.addr) # {e.addr}
        /\ \E i \in DOMAIN keys, j \in DOMAIN keys :
            /\ i < j
            /\ keys[j] = e.addr
            /\ keys[i] \notin Reach(cells, e.addr)
            /\ HasError(evaluateCell(cells, keys[i]))

\* the cell at c is a stored Error cell or a formula whose own evaluation fails
Failing(sh, c) ==
    /\ c \in DOMAIN sh
    /\ \/ sh[c].kind = "error"
       \/ sh[c].kind = "formula" /\ HasError(evaluateCell(sh, c))

\* C8: a formula cell that references a failing cell, directly or through other
\* formulas (outside the branches of an IF), evaluates to an error.
C8_FailureReachesDependants ==
    \A e \in Evaluated :
        (\E c \in StrictClosure(cells, CellStrictRefs(cells, e.addr)) : Failing(cells, c))
        => HasError(e.result)

(***************************************************************************)
(* Claims about the DependencyGraph, checked under SpecGraph               *)
(***************************************************************************)
\* C9: after any sequence of addDependency and removeDependencies calls, b is in
\* dependencies[a] if and only if a is in dependents[b].
C9_MapsAreInverses ==
    \A a \in Addrs, b \in Addrs :
        (a \in DOMAIN dependencies /\ b \in Range(dependencies[a]))
        <=> (b \in DOMAIN dependents /\ a \in Range(dependents[b]))

\* edges are present, one cell has two dependents, and a removal has emptied the
\* dependents of another cell
C9_Witness ==
    /\ \E b \in DOMAIN dependents : Len(dependents[b]) = 2
    /\ \E b \in DOMAIN dependents : dependents[b] = <<>>
    /\ \E a \in DOMAIN dependencies : Len(dependencies[a]) = 2

\* the cells reachable from the cells of S along dependency edges (S included)
RECURSIVE ReachableFrom(_, _)
ReachableFrom(G, S) ==
    LET N == S \cup UNION {Range(getDependencies(G, c)) : c \in S}
    IN  IF N = S THEN S ELSE ReachableFrom(G, N)

\* C10: hasCycle(from, to) returns true exactly when from = to or from is
\* reachable from to along dependency edges, and false in every other case.
C10_HasCycleIsReachability ==
    ret.op = "hasCycle" =>
        (ret.value <=> (ret.from = ret.to \/ ret.from \in ReachableFrom(Graph, {ret.to})))

\* some cell reachable from the cells of S lies on a cycle of dependency edges
CycleReachableFrom(G, S) ==
    \E c \in ReachableFrom(G, S) : c \in ReachableFrom(G, Range(getDependencies(G, c)))

\* C10 (amended): hasCycle(from, to) returns true exactly when from = to, or
\* from is reachable from to along dependency edges, or a cycle of dependency
\* edges is reachable from to; it returns false in every other case.
C10_HasCycleIsReachabilityOrCycle ==
    ret.op = "hasCycle" =>
        (ret.value <=> \/ ret.from = ret.to
                       \/ ret.from \in ReachableFrom(Graph, {ret.to})
                       \/ CycleReachableFrom(Graph, {ret.to}))

\* hasCycle has returned true for a cell reached from to over two edges and no
\* fewer, in a graph without a cycle below to
C10_Witness ==
    /\ ret.op = "hasCycle"
    /\ ret.value
    /\ ret.from # ret.to
    /\ ret.from \notin Range(getDependencies(Graph, ret.to))
    /\ ret.from \in ReachableFrom(Graph, {ret.to})
    /\ ~CycleReachableFrom(Graph, {ret.to})

\* no cell of the graph can reach itself along one or more dependency edges
GraphAcyclic(G) ==
    \A c \in Addrs : c \notin ReachableFrom(G, Range(getDependencies(G, c)))

\* C11: for an acyclic dependency graph, getEvaluationOrder(cells) returns a
\* sequence without duplicates that contains every requested cell and in which
\* every cell comes after all the cells it depends on.
C11_OrderIsTopological ==
    (ret.op = "getEvaluationOrder" /\ GraphAcyclic(Graph)) =>
        /\ \A i \in DOMAIN ret.order, j \in DOMAIN ret.order :
              i # j => ret.order[i] # ret.order[j]
        /\ Range(ret.cells) \subseteq Range(ret.order)
        /\ \A i \in DOMAIN ret.order :
              \A d \in Range(getDependencies(Graph, ret.order[i])) :
                  \E j \in 1..(i - 1) : ret.order[j] = d

\* getEvaluationOrder has returned three cells for an acyclic graph, asked for a
\* cell with two dependencies one of which depends on the other
C11_Witness ==
    /\ ret.op = "getEvaluationOrder"
    /\ GraphAcyclic(Graph)
    /\ Len(ret.order) = 3
    /\ Len(ret.cells) >= 1
    /\ Len(getDependencies(Graph, ret.cells[1])) = 2
    /\ ret.order[3] = ret.cells[1]
    /\ ret.order[1] # getDependencies(Graph, ret.cells[1])[1]

\* no formula cell of the sheet can reach itself along its references
SheetAcyclic(sh) == \A a \in DOMAIN sh : ~OnCycle(sh, a)

\* C12: after any sequence of updateCell calls that builds a sheet with acyclic
\* references, evaluateSheet evaluates every formula cell after every formula
\* cell it references, directly or through a range.
C12_SheetOrderRespectsReferences ==
    (ret.op = "evaluateSheet" /\ SheetAcyclic(cells)) =>
        \A i \in DOMAIN ret.results, j \in DOMAIN ret.results :
            ret.results[j].addr \in CellRefs(cells, ret.results[i].addr) => j < i

(***************************************************************************)
(* The address codec called on its own: one call, on arguments drawn from  *)
(* the sets below, in each behaviour                                       *)
(***************************************************************************)
\* the largest column and row index the round trip is required for
MaxCol == 999

MaxRow == 999

\* the coordinates tried: every column with the first rows, every row with the
\* first columns
NearAxis == 3

Coordinates ==
    ((0..MaxCol) \X (0..NearAxis)) \cup ((0..NearAxis) \X (0..MaxRow))

\* what a round trip returns: the text, and what parsing the text gives
thenParsed(call, text, parsed) == call @@ [text |-> text, parsed |-> IF text.ok THEN parsed ELSE text]

\* formatAddress(col, row, absoluteCol, absoluteRow), then parseAddress of the
\* text it returned
FormatAddress ==
    /\ ret = NoRet
    /\ \E c \in Coordinates, absoluteCol \in BOOLEAN, absoluteRow \in BOOLEAN :
          ret' = thenParsed([op |-> "formatAddress", col |-> c[1], row |-> c[2],
                             absoluteCol |-> absoluteCol, absoluteRow |-> absoluteRow],
                            formatAddress(c[1], c[2], absoluteCol, absoluteRow),
                            parseAddress(formatAddress(c[1], c[2], absoluteCol, absoluteRow).addr))
    /\ UNCHANGED <<dependencies, dependents, cells, keys>>

\* formatCellAddress(col, row), then parseCellAddress of the text it returned
FormatCellAddress ==
    /\ ret = NoRet
    /\ \E c \in Coordinates :
          ret' = thenParsed([op |-> "formatCellAddress", col |-> c[1], row |-> c[2]],
                            formatCellAddress(c[1], c[2]),
                            parseCellAddress(formatCellAddress(c[1], c[2]).addr))
    /\ UNCHANGED <<dependencies, dependents, cells, keys>>

\* the largest index of a reference handed to adjustReference or written in
\* a formula handed to transformFormula, and of an insertion or deletion point
MaxIndex == 2

\* the text of the address (col, row) with its $ markers, written out without
\* the code's formatAddress
AddressText(col, row, absoluteCol, absoluteRow) ==
    (IF absoluteCol THEN <<"$">> ELSE <<>>) \o <<Upper[col + 1]>>
    \o (IF absoluteRow THEN <<"$">> ELSE <<>>) \o <<Digits[row + 2]>>

\* { row?: number; col?: number }
Points ==
    {<<>>} \cup {[col |-> c] : c \in 0..MaxIndex} \cup {[row |-> r] : r \in 0..MaxIndex}
    \cup {[col |-> c, row |-> r] : c \in 0..MaxIndex, r \in 0..MaxIndex}

Flags == [col : BOOLEAN, row : BOOLEAN]

\* adjustReference(addr, insertedAt, deletedAt, isAbsolute) for the address of
\* a cell on the diagonal
AdjustReference ==
    /\ ret = NoRet
    /\ \E k \in 0..MaxIndex, insertedAt \in Points, deletedAt \in Points, isAbsolute \in Flags :
          ret' = [op |-> "adjustReference", col |-> k, row |-> k,
                  insertedAt |-> insertedAt, deletedAt |-> deletedAt,
                  isAbsolute |-> isAbsolute,
                  result |-> adjustReference(AddressText(k, k, FALSE, FALSE),
                                             insertedAt, deletedAt, isAbsolute)]
    /\ UNCHANGED <<dependencies, dependents, cells, keys>>

\* the address tokens written into formulas: [col, row, absoluteCol, absoluteRow]
Tokens == [col : 0..1, row : 0..1, absoluteCol : BOOLEAN, absoluteRow : BOOLEAN]

TokenText(t) == AddressText(t.col, t.row, t.absoluteCol, t.absoluteRow)

\* the text around two address tokens: before, between and after them
Frames == {
    <<<<"=">>, <<"+">>, <<>>>>,
    <<<<"=", "S", "U", "M", "(">>, <<":">>, <<")">>>>,
    <<<<"=", "I", "F", "(">>, <<">", "1", ",", "2", "*">>, <<",", "0", ")">>>> }

\* transformFormula(formula, fromCell, toCell) for a formula with two address
\* tokens, copied between two cells of the diagonal
TransformFormula ==
    /\ ret = NoRet
    /\ \E f \in Frames, t1 \in Tokens, t2 \in Tokens, from \in 0..MaxIndex, to \in 0..MaxIndex :
          ret' = [op |-> "transformFormula", frame |-> f, tokens |-> <<t1, t2>>,
                  from |-> from, to |-> to,
                  result |-> transformFormula(
                      f[1] \o TokenText(t1) \o f[2] \o TokenText(t2) \o f[3],
                      AddressText(from, from, FALSE, FALSE),
                      AddressText(to, to, FALSE, FALSE))]
    /\ UNCHANGED <<dependencies, dependents, cells, keys>>

NextCodec ==
    \/ FormatAddress
    \/ FormatCellAddress
    \/ AdjustReference
    \/ TransformFormula

SpecCodec == Init /\ [][NextCodec]_vars

\* the letters of column col written out independently of the code: one letter
\* below 26, two below 26 + 26 * 26, three above
ColumnLetters(col) ==
    IF col < 26 THEN <<Upper[col + 1]>>
    ELSE IF col < 702
    THEN <<Upper[((col - 26) \div 26) + 1], Upper[((col - 26) % 26) + 1]>>
    ELSE <<Upper[((col - 702) \div 676) + 1], Upper[(((col - 702) \div 26) % 26) + 1],
           Upper[((col - 702) % 26) + 1]>>

\* C13: for 0 <= col, row < 1000, parseAddress(formatAddress(col, row)) is
\* exactly (col, row) with no fixed flag, and so is
\* parseCellAddress(formatCellAddress(col, row)); the text is the bijective
\* base-26 letters of col (A = 0 ... Z = 25, AA = 26) followed by row + 1.
C13_AddressRoundTrip ==
    /\ (ret.op = "formatAddress" /\ ~ret.absoluteCol /\ ~ret.absoluteRow) =>
          /\ ret.text.ok
          /\ ret.text.addr = ColumnLetters(ret.col) \o NatToString(ret.row + 1)
          /\ ret.parsed = [ok |-> TRUE, col |-> ret.col, row |-> ret.row,
                           absoluteCol |-> FALSE, absoluteRow |-> FALSE]
    /\ ret.op = "formatCellAddress" =>
          /\ ret.text.ok
          /\ ret.text.addr = ColumnLetters(ret.col) \o NatToString(ret.row + 1)
          /\ ret.parsed = [ok |-> TRUE, col |-> ret.col, row |-> ret.row]

\* the round trip through parseAddress has been made for the three-letter
\* column 999 (ALL)
C13_Witness ==
    /\ ret.op = "formatAddress"
    /\ ~ret.absoluteCol /\ ~ret.absoluteRow
    /\ ret.col = 999
    /\ ret.text.ok
    /\ ret.text.addr = <<"A", "L", "L", "1">>
    /\ ret.parsed.ok /\ ret.parsed.col = 999 /\ ret.parsed.row = 0

\* C14: for every col, row >= 0 and every combination of the two fixed flags,
\* formatAddress returns the address text with a $ before each fixed part, and
\* parseAddress of that text gives back the same col, row and flags.
C14_FixedRoundTrip ==
    ret.op = "formatAddress" =>
        /\ ret.text.ok
        /\ ret.text.addr = (IF ret.absoluteCol THEN <<"$">> ELSE <<>>)
                           \o ColumnLetters(ret.col)
                           \o (IF ret.absoluteRow THEN <<"$">> ELSE <<>>)
                           \o NatToString(ret.row + 1)
        /\ ret.parsed = [ok |-> TRUE, col |-> ret.col, row |-> ret.row,
                         absoluteCol |-> ret.absoluteCol, absoluteRow |-> ret.absoluteRow]

\* what the claim says adjustReference does to the index v of an axis that is
\* not fixed, for calls that give the axis at most one point
AdjustedIndex(v, insertedAt, deletedAt, axis) ==
    IF axis \in DOMAIN insertedAt /\ insertedAt[axis] <= v THEN v + 1
    ELSE IF axis \in DOMAIN deletedAt /\ deletedAt[axis] <= v THEN v - 1
    ELSE v

OnePoint(insertedAt, deletedAt, axis) ==
    ~(axis \in DOMAIN insertedAt /\ axis \in DOMAIN deletedAt)

\* C15: adjustReference adds 1 to the index of an axis that is not fixed when an
\* insertion point is at or before it, subtracts 1 when a deletion point is at
\* or before it, and returns the address with every fixed axis unshifted and
\* still marked fixed.
C15_AdjustReferenceShifts ==
    (/\ ret.op = "adjustReference"
     /\ OnePoint(ret.insertedAt, ret.deletedAt, "col")
     /\ OnePoint(ret.insertedAt, ret.deletedAt, "row")
     /\ AdjustedIndex(ret.col, ret.insertedAt, ret.deletedAt, "col") >= 0
     /\ AdjustedIndex(ret.row, ret.insertedAt, ret.deletedAt, "row") >= 0) =>
        /\ ret.result.ok
        /\ ret.result.addr =
              AddressText(IF ret.isAbsolute.col THEN ret.col
                          ELSE AdjustedIndex(ret.col, ret.insertedAt, ret.deletedAt, "col"),
                          IF ret.isAbsolute.row THEN ret.row
                          ELSE AdjustedIndex(ret.row, ret.insertedAt, ret.deletedAt, "row"),
                          ret.isAbsolute.col, ret.isAbsolute.row)

\* what the claim says becomes of one address token when the formula moves by
\* (colOffset, rowOffset)
Moved(t, colOffset, rowOffset) ==
    IF t.absoluteCol /\ t.absoluteRow THEN TokenText(t)
    ELSE IF (~t.absoluteCol /\ t.col + colOffset < 0) \/ (~t.absoluteRow /\ t.row + rowOffset < 0)
    THEN <<"#", "R", "E", "F", "!">>
    ELSE AddressText(IF t.absoluteCol THEN t.col ELSE t.col + colOffset,
                     IF t.absoluteRow THEN t.row ELSE t.row + rowOffset,
                     t.absoluteCol, t.absoluteRow)

\* C16: transformFormula(formula, from, to) rewrites every address token so that
\* each axis that is not fixed moves by the column/row difference between from
\* and to and each fixed axis stays; a fully fixed token is returned verbatim,
\* a token whose shifted column or row would be negative becomes #REF!, and the
\* text around the tokens is kept.
C16_TransformFormulaShifts ==
    ret.op = "transformFormula" =>
        /\ ret.result.ok
        /\ ret.result.text =
              ret.frame[1] \o Moved(ret.tokens[1], ret.to - ret.from, ret.to - ret.from)
              \o ret.frame[2] \o Moved(ret.tokens[2], ret.to - ret.from, ret.to - ret.from)
              \o ret.frame[3]

\* a formula with a half-fixed token that moved on its free axis only and a
\* free token that fell off the sheet has been transformed
C16_Witness ==
    /\ ret.op = "transformFormula"
    /\ ret.to < ret.from
    /\ ret.tokens[1].absoluteCol /\ ~ret.tokens[1].absoluteRow
    /\ ret.tokens[1].row + ret.to - ret.from >= 0
    /\ ~ret.tokens[2].absoluteCol /\ ~ret.tokens[2].absoluteRow
    /\ ret.tokens[2].col + ret.to - ret.from < 0
    /\ ret.result.ok
    /\ ret.result.text # ret.frame[1] \o TokenText(ret.tokens[1]) \o ret.frame[2]
                         \o TokenText(ret.tokens[2]) \o ret.frame[3]

(***************************************************************************)
(* The parser and the evaluation of one formula on its own: one call, on   *)
(* a text drawn from the sets below, in each behaviour                     *)
(***************************************************************************)
\* the largest operand written in a chain of two operators
MaxOperand == 3

\* parseFormula called on a op1 b op2 c written plainly, as (a op1 b) op2 c and
\* as a op1 (b op2 c), for every pair of binary operators
ChainCalls ==
    LET Operators == {
            <<"=">>, <<"<", ">">>, <<"<">>, <<"<", "=">>, <<">">>, <<">", "=">>,
            <<"+">>, <<"-">>, <<"*">>, <<"/">>, <<"^">> }
        ChainText(shape, a, op1, b, op2, c) ==
            CASE shape = "chain" ->
                    <<"=">> \o NatToString(a) \o op1 \o NatToString(b) \o op2
                    \o NatToString(c)
              [] shape = "left" ->
                    <<"=", "(">> \o NatToString(a) \o op1 \o NatToString(b) \o <<")">>
                    \o op2 \o NatToString(c)
              [] shape = "right" ->
                    <<"=">> \o NatToString(a) \o op1 \o <<"(">> \o NatToString(b) \o op2
                    \o NatToString(c) \o <<")">>
    IN  {[op |-> "parseFormula", shape |-> shape, a |-> a, op1 |-> op1, b |-> b,
          op2 |-> op2, c |-> c,
          src |-> ChainText(shape, a, op1, b, op2, c),
          result |-> parseFormula(ChainText(shape, a, op1, b, op2, c))] :
            shape \in {"chain", "left", "right"}, op1 \in Operators, op2 \in Operators,
            a \in 1..MaxOperand, b \in 1..MaxOperand, c \in 1..MaxOperand}

\* parseFormula called on a complete expression followed by something more, on
\* a text that leaves a parenthesis open, and on a colon not followed by a cell
\* reference
MalformedCalls ==
    LET Complete == { <<"=", "1">>, <<"=", "A", "1">>, <<"=", "1", "+", "2">>,
                      <<"=", "S", "U", "M", "(", "A", "1", ")">> }
        Trailing == { <<" ", "2">>, <<" ", "A", "1">>, <<")">>, <<",", "2">>, <<"(">>,
                      <<"$">>, <<" ", "$">>, <<"#">>, <<"$", "2">>,
                      <<" ", "!", " ", "2">>, <<"&", "A", "1">> }
        Unbalanced == { <<"=", "(", "1">>, <<"=", "(", "(", "1", ")">>,
                        <<"=", "S", "U", "M", "(", "1">>,
                        <<"=", "S", "U", "M", "(", "A", "1", ",">>,
                        <<"=", "A", "1", ":">>, <<"=", "A", "1", ":", "2">>,
                        <<"=", "A", "1", ":", "+", "1">>,
                        <<"=", "S", "U", "M", "(", "A", "1", ":", ")">> }
    IN  {[op |-> "parseFormula", shape |-> "malformed", src |-> src,
          result |-> parseFormula(src)] :
            src \in {e \o t : e \in Complete, t \in Trailing} \cup Unbalanced}

\* parseFormula called on a formula holding one reference with absolute
\* markers: alone, as a right operand, and as a function argument
AbsoluteCalls ==
    LET Around == {<<<<"=">>, <<>>>>, <<<<"=", "1", "+">>, <<>>>>,
                   <<<<"=", "S", "U", "M", "(">>, <<")">>>>}
    IN  {[op |-> "parseFormula", shape |-> "absolute", token |-> t, around |-> around,
          src |-> around[1] \o TokenText(t) \o around[2],
          result |-> parseFormula(around[1] \o TokenText(t) \o around[2])] :
            t \in {u \in Tokens : u.absoluteCol \/ u.absoluteRow}, around \in Around}

\* parseFormula(src), with its input and its result in call
ParseFormula(call) ==
    /\ ret = NoRet
    /\ ret' = call
    /\ UNCHANGED <<dependencies, dependents, cells, keys>>

\* the formulas of the precedence tests and chains of one operator, each stored
\* in a cell of an otherwise empty sheet and evaluated
EvaluateCalls ==
    LET EvaluatedTexts == {
            <<"=", "1", "+", "2", "*", "3">>,
            <<"=", "(", "1", "+", "2", ")", "*", "3">>,
            <<"=", "2", "^", "3", "*", "4">>,
            <<"=", "2", "^", "(", "3", "*", "4", ")">>,
            <<"=", "2", "^", "3", "^", "2">>,
            <<"=", "2", "^", "2", "^", "3">>,
            <<"=", "8", "-", "3", "-", "2">>,
            <<"=", "8", "/", "4", "/", "2">>,
            <<"=", "2", "*", "3", "+", "4">>,
            <<"=", "1", "+", "2", "<", "4">> }
    IN  {[op |-> "evaluateFormula", src |-> src, address |-> address,
          result |-> evaluateCell(MapSet(EmptyMap, address, formulaCell(src)), address)] :
            src \in EvaluatedTexts, address \in Addrs}

\* IF called with zero to four arguments, and with three: a condition that is
\* a number, a string, an empty cell, a cell holding 2 or a comparison, and
\* branches that are a number or the cell holding 2.  Each argument is given
\* with the value it has on the sheet.
IfCalls ==
    LET Conditions == {
            <<<<"0">>, Num(0)>>,
            <<<<"1">>, Num(1)>>,
            <<<<"\"", "\"">>, Str(<<>>)>>,
            <<<<"\"", "a", "\"">>, Str(<<"a">>)>>,
            <<<<"A", "3">>, Null>>,
            <<<<"A", "2">>, Num(2)>>,
            <<<<"1", ">", "2">>, Bool(FALSE)>>,
            <<<<"2", ">", "1">>, Bool(TRUE)>> }
        Thens == { <<<<"5">>, Num(5)>>, <<<<"A", "2">>, Num(2)>> }
        Elses == { <<<<"7">>, Num(7)>>, <<<<"A", "2">>, Num(2)>> }
        Counted == { <<0, <<"=", "I", "F", "(", ")">>>>,
                    <<1, <<"=", "I", "F", "(", "1", ")">>>>,
                    <<2, <<"=", "I", "F", "(", "1", ",", "5", ")">>>>,
                    <<4, <<"=", "I", "F", "(", "1", ",", "5", ",", "7", ",", "9", ")">>>> }
        Sheet(src) == MapSet(MapSet(EmptyMap, A1, formulaCell(src)), A2,
                             literalCell(Num(2)))
        Text(c, t, e) ==
            <<"=", "I", "F", "(">> \o c \o <<",">> \o t \o <<",">> \o e \o <<")">>
    IN  {[op |-> "evaluateFormula", shape |-> "if", count |-> 3,
          cond |-> c[2], then |-> t[2], else |-> e[2],
          src |-> Text(c[1], t[1], e[1]), address |-> A1,
          result |-> evaluateCell(Sheet(Text(c[1], t[1], e[1])), A1)] :
            c \in Conditions, t \in Thens, e \in Elses}
        \cup
        {[op |-> "evaluateFormula", shape |-> "if", count |-> n[1],
          src |-> n[2], address |-> A1,
          result |-> evaluateCell(Sheet(n[2]), A1)] : n \in Counted}

\* IF called with a comparison as its condition: the left operand is a number
\* or the cell holding 2, each branch is a number, the cell holding 2, or
\* something that fails when evaluated (a division by zero, the formula's own
\* cell, a bare range); and the three conditionals of the test cases
IfComparisonCalls ==
    LET Fails == [t |-> "fails"]
        Lefts == { <<<<"0">>, 0>>, <<<<"1">>, 1>>, <<<<"2">>, 2>>, <<<<"A", "2">>, 2>> }
        Rights == { <<<<"0">>, 0>>, <<<<"1">>, 1>>, <<<<"2">>, 2>> }
        Comparisons == { <<"<">>, <<"<", "=">>, <<">">>, <<">", "=">>, <<"=">>, <<"<", ">">> }
        Branches == { <<<<"5">>, Num(5)>>, <<<<"A", "2">>, Num(2)>>, <<<<"1", "/", "0">>, Fails>>,
                      <<<<"A", "1">>, Fails>>, <<<<"A", "2", ":", "A", "3">>, Fails>> }
        Tests == { <<<<"=", "I", "F", "(", "1", ">", "0", ",", "\"", "y", "e", "s", "\"", ",", "\"", "n", "o", "\"", ")">>,
                     Str(<<"y", "e", "s">>)>>,
                   <<<<"=", "I", "F", "(", "5", "=", "5", ",", "1", "0", ",", "2", "0", ")">>, Num(10)>>,
                   <<<<"=", "I", "F", "(", "3", "<", ">", "3", ",", "1", ",", "2", ")">>, Num(2)>> }
        Sheet(src) == MapSet(MapSet(EmptyMap, A1, formulaCell(src)), A2,
                             literalCell(Num(2)))
        Text(l, cmp, r, t, e) ==
            <<"=", "I", "F", "(">> \o l \o cmp \o r \o <<",">> \o t \o <<",">> \o e
            \o <<")">>
    IN  {[op |-> "evaluateFormula", shape |-> "ifComparison",
          l |-> l[2], cmp |-> cmp, r |-> r[2], then |-> t[2], else |-> e[2],
          src |-> Text(l[1], cmp, r[1], t[1], e[1]), address |-> A1,
          result |-> evaluateCell(Sheet(Text(l[1], cmp, r[1], t[1], e[1])), A1)] :
            l \in Lefts, cmp \in Comparisons, r \in Rights,
            t \in Branches, e \in Branches}
        \cup
        {[op |-> "evaluateFormula", shape |-> "ifTest", expected |-> x[2],
          src |-> x[1], address |-> A1,
          result |-> evaluateCell(Sheet(x[1]), A1)] : x \in Tests}

\* SUM, AVG, AVERAGE, MIN and MAX called with zero, one and two arguments on a
\* sheet holding 2 in A2, "x" in A3, true in A4, nothing in A5 and 4 in A6; each
\* argument is given with its numeric operands.  And the four test cases.
AggregateCalls ==
    LET Operands == {
            <<<<"3">>, <<3>>>>,
            <<<<"\"", "x", "\"">>, <<>>>>,
            <<<<"1", ">", "0">>, <<>>>>,
            <<<<"A", "2">>, <<2>>>>,
            <<<<"A", "3">>, <<>>>>,
            <<<<"A", "5">>, <<>>>>,
            <<<<"A", "6">>, <<4>>>>,
            <<<<"A", "2", ":", "A", "3">>, <<2>>>>,
            <<<<"A", "3", ":", "A", "5">>, <<>>>>,
            <<<<"A", "2", ":", "A", "6">>, <<2, 4>>>> }
        Tests == {
            <<<<"=", "S", "U", "M", "(", "1", ",", "2", ",", "3", ")">>, Num(6)>>,
            <<<<"=", "A", "V", "G", "(", "1", "0", ",", "2", "0", ",", "3", "0", ")">>, Num(20)>>,
            <<<<"=", "M", "I", "N", "(", "5", ",", "3", ",", "7", ")">>, Num(3)>>,
            <<<<"=", "M", "A", "X", "(", "5", ",", "3", ",", "7", ")">>, Num(7)>> }
        Sheet(src) ==
            [a \in {A1, A2, A3, <<"A", "4">>, <<"A", "6">>} |->
                CASE a = A1 -> formulaCell(src)
                  [] a = A2 -> literalCell(Num(2))
                  [] a = A3 -> literalCell(Str(<<"x">>))
                  [] a = <<"A", "4">> -> literalCell(Bool(TRUE))
                  [] a = <<"A", "6">> -> literalCell(Num(4))]
        Call(name, text, nums) ==
            [op |-> "evaluateFormula", shape |-> "aggregate", name |-> name,
             nums |-> nums, src |-> <<"=">> \o name \o <<"(">> \o text \o <<")">>,
             address |-> A1,
             result |-> evaluateCell(
                            Sheet(<<"=">> \o name \o <<"(">> \o text \o <<")">>), A1)]
    IN  UNION {
            {Call(name, <<>>, <<>>)}
            \cup {Call(name, x[1], x[2]) : x \in Operands}
            \cup {Call(name, x[1] \o <<",">> \o y[1], x[2] \o y[2]) :
                    x \in Operands, y \in Operands} :
            name \in {SUM, AVG, AVERAGE, MIN, MAX}}
        \cup
        {[op |-> "evaluateFormula", shape |-> "aggregateTest", expected |-> x[2],
          src |-> x[1], address |-> A1,
          result |-> evaluateCell(Sheet(x[1]), A1)] : x \in Tests}

\* evaluateCell on the sheet holding one formula, with its input and its result
\* in call
EvaluateFormula(call) ==
    /\ ret = NoRet
    /\ ret' = call
    /\ UNCHANGED <<dependencies, dependents, cells, keys>>

NextParser ==
    \/ \E call \in ChainCalls \cup MalformedCalls \cup AbsoluteCalls : ParseFormula(call)
    \/ \E call \in EvaluateCalls \cup IfCalls \cup IfComparisonCalls \cup AggregateCalls :
          EvaluateFormula(call)

SpecParser == Init /\ [][NextParser]_vars

(***************************************************************************)
(* Claims about the parser                                                 *)
(***************************************************************************)
\* the precedence table as the specification gives it
Level(op) ==
    CASE op \in {<<"=">>, <<"<", ">">>} -> 1
      [] op \in {<<"<">>, <<"<", "=">>, <<">">>, <<">", "=">>} -> 2
      [] op \in {<<"+">>, <<"-">>} -> 3
      [] op \in {<<"*">>, <<"/">>} -> 4
      [] op = <<"^">> -> 5

NumberNode(n) == [type |-> "number", value |-> Num(n)]

BinaryNode(op, left, right) ==
    [type |-> "binary", op |-> op, left |-> left, right |-> right]

\* (a op1 b) op2 c
LeftGrouped(r) ==
    BinaryNode(r.op2, BinaryNode(r.op1, NumberNode(r.a), NumberNode(r.b)), NumberNode(r.c))

\* a op1 (b op2 c)
RightGrouped(r) ==
    BinaryNode(r.op1, NumberNode(r.a), BinaryNode(r.op2, NumberNode(r.b), NumberNode(r.c)))

IsChainCall == ret.op = "parseFormula" /\ ret.shape \in {"chain", "left", "right"}

EvaluatesTo(src, n) ==
    ret.op = "evaluateFormula" /\ ret.src = src => ret.result = [value |-> Num(n)]

\* C17: a op1 b op2 c parses with the operator of higher precedence binding
\* tighter and operators of equal precedence grouped to the left, parentheses
\* override this, and =1+2*3 is 7, =(1+2)*3 is 9, =2^3*4 is 32, =2^(3*4) is 4096.
C17_PrecedenceGrouping ==
    /\ IsChainCall =>
          ret.result =
             [ok |-> TRUE,
              ast |-> IF \/ ret.shape = "right"
                         \/ ret.shape = "chain" /\ Level(ret.op2) > Level(ret.op1)
                      THEN RightGrouped(ret) ELSE LeftGrouped(ret)]
    /\ EvaluatesTo(<<"=", "1", "+", "2", "*", "3">>, 7)
    /\ EvaluatesTo(<<"=", "(", "1", "+", "2", ")", "*", "3">>, 9)
    /\ EvaluatesTo(<<"=", "2", "^", "3", "*", "4">>, 32)
    /\ EvaluatesTo(<<"=", "2", "^", "(", "3", "*", "4", ")">>, 4096)
    /\ EvaluatesTo(<<"=", "8", "-", "3", "-", "2">>, 3)
    /\ EvaluatesTo(<<"=", "2", "*", "3", "+", "4">>, 10)

\* a chain of two different operators of equal precedence has been parsed and
\* grouped to the left
C17_Witness ==
    /\ IsChainCall
    /\ ret.shape = "chain"
    /\ ret.op1 # ret.op2
    /\ Level(ret.op1) = Level(ret.op2)
    /\ ret.result.ok
    /\ ret.result.ast = LeftGrouped(ret)

\* C18: ^ is right-associative: a^b^c parses as a^(b^c), and =2^3^2 is 512.
C18_PowerRightAssociative ==
    /\ IsChainCall /\ ret.shape = "chain" /\ ret.op1 = <<"^">> /\ ret.op2 = <<"^">> =>
          ret.result = [ok |-> TRUE, ast |-> RightGrouped(ret)]
    /\ EvaluatesTo(<<"=", "2", "^", "3", "^", "2">>, 512)

\* C19: parseFormula throws for a text that has anything left after a complete
\* expression, that leaves a parenthesis open, or that has a colon not followed
\* by a cell reference.
C19_MalformedTextFails ==
    ret.op = "parseFormula" /\ ret.shape = "malformed" => ~ret.result.ok

\* C20: a formula holding a reference with absolute markers parses, and the
\* reference node carries the fixed flags of the markers in the text.
C20_AbsoluteMarkersParse ==
    ret.op = "parseFormula" /\ ret.shape = "absolute" =>
        /\ ret.result.ok
        /\ LET node == [type |-> "ref",
                        address |-> AddressText(ret.token.col, ret.token.row, FALSE, FALSE),
                        absolute |-> [col |-> ret.token.absoluteCol,
                                      row |-> ret.token.absoluteRow]]
           IN  \/ ret.result.ast = node
               \/ /\ ret.result.ast.type = "binary"
                  /\ ret.result.ast.right = node
               \/ /\ ret.result.ast.type = "function"
                  /\ ret.result.ast.args = <<node>>

C28_GraphWalksReturn ==
    /\ \A from \in Addrs, to \in Addrs :
          LET walk == dfs(Graph, from, to, [visited |-> {}, stack |-> {}])
          IN  /\ walk.r \in BOOLEAN
              /\ walk.visited \subseteq ReachableFrom(Graph, {to})
              /\ walk.stack \subseteq walk.visited
    /\ ret.op = "hasCycle" => ret.value \in BOOLEAN
    /\ ret.op = "getEvaluationOrder" =>
          /\ Range(ret.order) = ReachableFrom(Graph, Range(ret.cells))
          /\ Len(ret.order) = Cardinality(Range(ret.order))

\* getEvaluationOrder has returned for a requested cell that lies on a cycle of
\* two or more cells, and for the same cell requested twice
C28_Witness ==
    /\ ret.op = "getEvaluationOrder"
    /\ Len(ret.cells) = 2
    /\ ret.cells[1] = ret.cells[2]
    /\ ret.cells[1] \notin Range(getDependencies(Graph, ret.cells[1]))
    /\ ret.cells[1] \in ReachableFrom(Graph, Range(getDependencies(Graph, ret.cells[1])))
    /\ Len(ret.order) >= 2

(***************************************************************************)
(* Claims about repeated evaluation, checked under SpecEngine              *)
(***************************************************************************)
\* the address-to-EvalResult mapping of a sheet: each formula cell with what
\* evaluateCell returns for it
SheetMapping(sh) ==
    {[addr |-> a, result |-> evaluateCell(sh, a)] :
        a \in {b \in DOMAIN sh : IsFormulaAt(sh, b)}}

StatedTruthy(v) == v # Null /\ v # Num(0) /\ v # Str(<<>>)

\* C24: IF with any number of arguments other than 3 fails with EVAL; with 3
\* it returns the value of the second argument when the condition is not null,
\* not 0 and not the empty string, and the value of the third otherwise.
C24_IfCountAndTruthiness ==
    (ret.op = "evaluateFormula" /\ "shape" \in DOMAIN ret /\ ret.shape = "if") =>
        IF ret.count # 3 THEN ErrorCode(ret.result) = "EVAL"
        ELSE ret.result = [value |-> IF StatedTruthy(ret.cond) THEN ret.then ELSE ret.else]

\* whether l cmp r holds
Holds(l, cmp, r) ==
    CASE cmp = <<"<">> -> l < r
      [] cmp = <<"<", "=">> -> l <= r
      [] cmp = <<">">> -> l > r
      [] cmp = <<">", "=">> -> l >= r
      [] cmp = <<"=">> -> l = r
      [] cmp = <<"<", ">">> -> l # r

\* C25: IF(l cmp r, then, else) returns the value of then when l cmp r holds and
\* the value of else when it does not, whatever the branch that was not
\* selected would do when evaluated; =IF(1>0,"yes","no") is "yes",
\* =IF(5=5,10,20) is 10 and =IF(3<>3,1,2) is 2.
C25_IfSelectsByComparison ==
    /\ (ret.op = "evaluateFormula" /\ "shape" \in DOMAIN ret
        /\ ret.shape = "ifComparison") =>
          LET selected == IF Holds(ret.l, ret.cmp, ret.r) THEN ret.then ELSE ret.else
          IN  selected.t # "fails" => ret.result = [value |-> selected]
    /\ (ret.op = "evaluateFormula" /\ "shape" \in DOMAIN ret /\ ret.shape = "ifTest") =>
          ret.result = [value |-> ret.expected]

RECURSIVE SeqSum(_)
SeqSum(s) == IF s = <<>> THEN 0 ELSE Head(s) + SeqSum(Tail(s))

\* what the claim says an aggregate over the numeric operands nums returns
StatedAggregate(name, nums) ==
    CASE name = SUM -> Num(SeqSum(nums))
      [] name \in {AVG, AVERAGE} ->
            IF nums = <<>> THEN Num(0) ELSE Rat(SeqSum(nums), Len(nums))
      [] name = MIN ->
            IF nums = <<>> THEN Num(0)
            ELSE Num(CHOOSE m \in Range(nums) : \A x \in Range(nums) : m <= x)
      [] name = MAX ->
            IF nums = <<>> THEN Num(0)
            ELSE Num(CHOOSE m \in Range(nums) : \A x \in Range(nums) : m >= x)

\* C26: SUM, AVG/AVERAGE, MIN and MAX over scalar and range arguments return the
\* sum, mean, least and greatest of the numeric operands alone (strings,
\* booleans and empty cells are left out, inside ranges too), and AVG, MIN and
\* MAX return 0 when no operand is numeric.
C26_AggregatesUseNumbersOnly ==
    /\ (ret.op = "evaluateFormula" /\ "shape" \in DOMAIN ret
        /\ ret.shape = "aggregate") =>
          ret.result = [value |-> StatedAggregate(ret.name, ret.nums)]
    /\ (ret.op = "evaluateFormula" /\ "shape" \in DOMAIN ret
        /\ ret.shape = "aggregateTest") =>
          ret.result = [value |-> ret.expected]

(***************************************************************************)
(* Claims about the visited set of an evaluation, checked under SpecEngine *)
(* for evaluateCellRef entered with every visited set on every sheet       *)
(***************************************************************************)
\* C27: every normal return of evaluateCellRef(address) leaves visited as it was
\* before the call, whether the address holds no cell, a literal, an Error cell
\* or a formula.
C27_CellRefRestoresVisited ==
    \A address \in Addrs, vis \in SUBSET Addrs :
        LET r == evaluateCellRef(cells, address, vis)
        IN  r.ok => r.visited = vis

\* C29: evaluateCell returns an EvalResult on every sheet, sheets with reference
\* cycles and with ranges over the evaluated cell included: evaluateCellRef
\* refuses a cell that is in visited, and on a normal return it has removed no
\* other cell from visited, so the formula cells on the reference path stay in
\* visited until their own evaluation is over and none is entered twice.
C29_EvaluateCellReturns ==
    /\ ret.op = "evaluateCell" => IsEvalResult(ret.result)
    /\ \A address \in Addrs, vis \in SUBSET Addrs :
          LET r == evaluateCellRef(cells, address, vis)
          IN  /\ address \in vis => (~r.ok /\ r.code = "CYCLE")
              /\ r.ok => vis \subseteq r.visited

\* evaluateCell has returned CYCLE for a formula over a range that holds its
\* own cell, on a sheet where two other formula cells reference each other
C29_Witness ==
    /\ ret.op = "evaluateCell"
    /\ IsFormulaAt(cells, ret.address)
    /\ cells[ret.address].ast.type = "function"
    /\ ret.address \in CellRefs(cells, ret.address)
    /\ ErrorCode(ret.result) = "CYCLE"
    /\ \E a \in DOMAIN cells, b \in DOMAIN cells :
          /\ a # b /\ a # ret.address /\ b # ret.address
          /\ IsFormulaAt(cells, a) /\ IsFormulaAt(cells, b)
          /\ b \in CellRefs(cells, a) /\ a \in CellRefs(cells, b)

(***************************************************************************)
(* The sheet route: GET /api/sheets/[id] and PATCH /api/sheets/[id].       *)
(* The stored sheet is <<cells, keys>>; the route's module-level engine    *)
(* keeps the dependency graph <<dependencies, dependents>>, which neither  *)
(* handler writes.  A request names a sheet that is in the store, and its  *)
(* body has passed validateRequest(SheetPatchSchema, body), so every       *)
(* edit.addr is a cell address and every edit has the fields of its kind.  *)
(* parseFormula(edit.formula) does not read the sheet; an edit of kind     *)
(* "formula" carries its outcome in the field parsed.                      *)
(***************************************************************************)

\* one turn of `for (const edit of edits)` on the sheet [cells, keys]
applyEdit(sheet, edit) ==
    CASE edit.kind = "clear" ->
            [cells |-> MapDelete(sheet.cells, edit.addr),
             keys  |-> SetDelete(sheet.keys, edit.addr)]
      [] edit.kind = "literal" ->
            [cells |-> MapSet(sheet.cells, edit.addr,
                              [kind |-> "literal", value |-> edit.value]),
             keys  |-> SetAdd(sheet.keys, edit.addr)]
      [] edit.kind = "formula" ->
            [cells |-> MapSet(sheet.cells, edit.addr,
                              IF edit.parsed.ok
                              THEN [kind |-> "formula", src |-> edit.formula,
                                    ast |-> edit.parsed.ast]
                              ELSE [kind |-> "error", code |-> "PARSE",
                                    message |-> "Invalid formula"]),
             keys  |-> SetAdd(sheet.keys, edit.addr)]
      [] OTHER -> sheet

\* the loop stopped by the first formula that fails to parse
RECURSIVE applyEdits_stopAtParseFailure(_, _, _)
applyEdits_stopAtParseFailure(sheet, edits, i) ==
    IF i > Len(edits) THEN sheet
    ELSE IF edits[i].kind = "formula" /\ ~edits[i].parsed.ok
         THEN applyEdit(sheet, edits[i])
         ELSE applyEdits_stopAtParseFailure(applyEdit(sheet, edits[i]), edits, i + 1)

\* for (const edit of edits) { ... } from the i-th edit on
RECURSIVE applyEdits(_, _, _)
applyEdits(sheet, edits, i) ==
    IF i > Len(edits) THEN sheet
    ELSE applyEdits(applyEdit(sheet, edits[i]), edits, i + 1)

\* `#${code}!`
errorText(code) ==
    Str(<<"#">>
        \o (CASE code = "CYCLE" -> <<"C", "Y", "C", "L", "E">>
              [] code = "REF"   -> <<"R", "E", "F">>
              [] code = "PARSE" -> <<"P", "A", "R", "S", "E">>
              [] code = "DIV0"  -> <<"D", "I", "V", "0">>
              [] code = "EVAL"  -> <<"E", "V", "A", "L">>
              [] OTHER          -> <<"u", "n", "d", "e", "f", "i", "n", "e", "d">>)
        \o <<"!">>)

\* GET: computedValues, one entry for each entry of results
getComputedValues(results) ==
    [addr \in {e.addr : e \in Range(results)} |->
        LET result == (CHOOSE e \in Range(results) : e.addr = addr).result
        IN  IF HasError(result) THEN errorText(result.error.code) ELSE result.value]

\* PATCH: computedValues, one entry for each cell of the sheet (a formula
\* cell only if results has it)
patchComputedValues(sh, results) ==
    LET has(addr) == \E e \in Range(results) : e.addr = addr
        result(addr) == (CHOOSE e \in Range(results) : e.addr = addr).result
    IN  [addr \in {a \in DOMAIN sh : sh[a].kind = "formula" => has(a)} |->
            CASE sh[addr].kind = "formula" ->
                    IF HasError(result(addr)) THEN errorText(result(addr).error.code)
                    ELSE result(addr).value
              [] sh[addr].kind = "literal" -> sh[addr].value
              [] sh[addr].kind = "error" -> errorText(sh[addr].code)]

\* the edits of the requests, and the request bodies: up to two edits
Edits ==
    {[addr |-> a, kind |-> "clear"] : a \in {A1, A2}}
    \cup {[addr |-> a, kind |-> "literal", value |-> v] :
             a \in {A1, A2}, v \in {Num(1), Str(<<"x">>)}}
    \cup {[addr |-> a, kind |-> "formula", formula |-> src, parsed |-> parseFormula(src)] :
             a \in {A1, A2},
             src \in {<<"=", "A", "1", "+", "1">>, <<"=", "A", "2", "+", "1">>,
                      <<"=", "1", "/", "0">>, <<"=", "A", "2", ":", "A", "3">>,
                      <<"=", "(", "1">>}}

EditBatches == {<<>>} \cup {<<e>> : e \in Edits} \cup {<<e, f>> : e, f \in Edits}

Get ==
    /\ ret' = [op |-> "GET", status |-> 200,
               computedValues |-> getComputedValues(evaluateSheet(Graph, cells, keys))]
    /\ UNCHANGED <<dependencies, dependents, cells, keys>>

Patch(edits) ==
    LET sheet == applyEdits([cells |-> cells, keys |-> keys], edits, 1)
    IN  /\ cells' = sheet.cells
        /\ keys' = sheet.keys
        /\ ret' = [op |-> "PATCH", status |-> 200, edits |-> edits,
                   computedValues |->
                       patchComputedValues(sheet.cells,
                                           evaluateSheet(Graph, sheet.cells, sheet.keys))]
        /\ UNCHANGED <<dependencies, dependents>>

NextApi ==
    \/ Get
    \/ \E edits \in EditBatches : Patch(edits)

SpecApi == Init /\ [][NextApi]_vars

(***************************************************************************)
(* Claims about the sheet route                                            *)
(***************************************************************************)
\* the last edit of the batch that names address a
LastEdit(edits, a) ==
    edits[CHOOSE i \in DOMAIN edits :
             /\ edits[i].addr = a
             /\ \A j \in DOMAIN edits : edits[j].addr = a => j <= i]

\* C21: after PATCH has applied a batch of edits, every address the batch
\* names holds the Cell variant of the last edit that names it: a literal
\* cell with the given value, a formula cell with the given text and the
\* tree parseFormula returns for it, an error cell with code PARSE when
\* that text fails to parse, and no cell after a clear.  A parse failure
\* in one edit does not stop the later edits.
C21_PatchAppliesEachEdit ==
    ret.op = "PATCH" =>
        /\ ret.status = 200
        /\ DOMAIN cells = Range(keys)
        /\ \A a \in {e.addr : e \in Range(ret.edits)} :
              LET edit == LastEdit(ret.edits, a)
              IN  CASE edit.kind = "clear" -> a \notin DOMAIN cells
                    [] edit.kind = "literal" ->
                          /\ a \in DOMAIN cells
                          /\ cells[a] = [kind |-> "literal", value |-> edit.value]
                    [] edit.kind = "formula" ->
                          /\ a \in DOMAIN cells
                          /\ LET parsed == parseFormula(edit.formula)
                             IN  IF parsed.ok
                                 THEN cells[a] = [kind |-> "formula", src |-> edit.formula,
                                                  ast |-> parsed.ast]
                                 ELSE /\ cells[a].kind = "error"
                                      /\ cells[a].code = "PARSE"

\* a batch whose first edit is a formula that fails to parse and whose
\* second edit, to another address, is stored
C21_Witness ==
    /\ ret.op = "PATCH"
    /\ Len(ret.edits) = 2
    /\ ret.edits[1].kind = "formula"
    /\ ~parseFormula(ret.edits[1].formula).ok
    /\ ret.edits[2].kind = "formula"
    /\ ret.edits[2].addr # ret.edits[1].addr
    /\ cells[ret.edits[1].addr].kind = "error"
    /\ cells[ret.edits[2].addr].kind = "formula"

\* the texts `#<CODE>!` of the five error codes
ErrorTexts == {errorText(code) : code \in ErrorCodes}

\* C22: every computed value GET and PATCH return for a cell is the
\* cell's scalar value, or the text #<CODE>! where CODE is the code of the
\* cell's error and one of CYCLE, REF, PARSE, DIV0, EVAL; no other code
\* appears in a result of evaluateSheet.
C22_ComputedValuesAreValuesOrCodes ==
    /\ \A e \in Range(evaluateSheet(Graph, cells, keys)) :
          HasError(e.result) => e.result.error.code \in ErrorCodes
    /\ ret.op \in {"GET", "PATCH"} =>
          \A a \in DOMAIN ret.computedValues :
              /\ a \in DOMAIN cells
              /\ LET result == evaluateCell(cells, a)
                 IN  IF HasError(result)
                     THEN /\ ret.computedValues[a] = errorText(result.error.code)
                          /\ ret.computedValues[a] \in ErrorTexts
                     ELSE /\ ret.computedValues[a] = result.value
                          /\ result.value.t \in {"number", "string", "boolean", "null"}

\* PATCH returns the value of a literal cell and the error text of a
\* formula cell whose evaluation failed
C22_Witness ==
    /\ ret.op = "PATCH"
    /\ \E a, b \in DOMAIN ret.computedValues :
          /\ cells[a].kind = "formula"
          /\ HasError(evaluateCell(cells, a))
          /\ ret.computedValues[a] \in ErrorTexts
          /\ cells[b].kind = "literal"
          /\ ret.computedValues[b] = cells[b].value

====
